---- MODULE Spec2Model ----
(***************************************************************************)
(* OPEX budget tracker: the spreadsheet import (pages/monitor.py), manual  *)
(* add (pages/add_new.py), delete (pages/edit_budget.py) and the yearly    *)
(* budget page (pages/yearly_budget.py), over the tables amc_contracts,    *)
(* amc_pos, attachment and yearly_budget of opex.db.                       *)
(***************************************************************************)
EXTENDS Integers, Sequences, FiniteSets, TLC

\* ------------------------------------------------------------------ bounds
MaxPR == 1          \* PR numbers 1..MaxPR appear in sheets and forms
MaxRows == 2        \* sheet rows imported in one behaviour, over all imports
MaxAdds == 1        \* manual add submissions in one behaviour
MaxFiles == 1       \* files uploaded with one manual add
MaxClock == 1       \* seconds the wall clock advances in one behaviour
NSessions == 2      \* browser sessions on the yearly budget page
MaxAmount == 1      \* largest amount typed on the yearly budget page
MaxSubmits == 3     \* Save clicks on the yearly budget page in one behaviour
MaxEdits == 1       \* Save Changes clicks on the edit page in one behaviour
MaxSaves == 2
MaxListRows == 31
MaxOpens == 3       \* Save Changes clicks with Approved checked, one after another
MaxHeaderLen == 3   \* words in one column header of an uploaded sheet
MaxRawLen == 4      \* words and spaces in one column header as typed

\* ------------------------------------------------------------------ values
\* A spreadsheet cell or a database value: SQL NULL / NaN / None, a number,
\* or a text.
Null == [t |-> "null"]
Num(n) == [t |-> "num", v |-> n]
Txt(s) == [t |-> "str", v |-> s]

IsNull(c) == c.t = "null"
NotNull(c) == c.t # "null"

\* Python truthiness of a picked cell (`if not pr_number`).
Falsy(c) ==
    \/ c.t = "null"
    \/ c.t = "num" /\ c.v = 0
    \/ c.t = "str" /\ c.v = ""

\* float(text) for the texts of the model; on any other text float() raises.
FloatOfText == [s \in {"100"} |-> 100]

_to_float(v) ==
    IF v.t = "null" THEN Null
    ELSE IF v.t = "num" THEN v
    ELSE IF v.v = "" THEN Null
    ELSE IF v.v \in DOMAIN FloatOfText THEN Num(FloatOfText[v.v])
    ELSE Null

\* str(v)
str(v) == IF v.t = "num" THEN Txt(ToString(v.v)) ELSE v

\* ------------------------------------------------------------------ inputs
\* detected_years of the sheet, sorted.
detected_years == <<2024, 2025>>

YearIdx == 1..Len(detected_years)

PRNumbers == 1..MaxPR
PRCells == {Null, Num(0)} \cup {Num(p) : p \in PRNumbers}
VendorCells == {Null, Txt("V")}
UnitCostCells == {Null, Num(1500)}
BudgetCells == {Null, Num(100)}
UnitsCells == {Null, Num(10)}
PoAmountCells == {Null, Num(50)}
PoNumberCells == {Null, Num(7)}
ApprovedBudgetCells == {Null, Num(40000), Txt("n/a")}

\* The cells of one row in the five per-year columns of one year.
YearCells ==
    [budget : BudgetCells, units : UnitsCells, po_amount : PoAmountCells,
     po_number : PoNumberCells, approved_budget : ApprovedBudgetCells]

\* Every row a sheet of the model can hold.
AllRows ==
    [pr_number : PRCells, vendor : VendorCells, unit_cost : UnitCostCells,
     department : {Null}, directorate : {Null}, cells : [YearIdx -> YearCells]]

\* Per-year cells of the sheets imported one after another: no cell for the
\* year, a budget alone, or a budget with its approved budget and PO number.
SheetCells ==
    {c \in YearCells : /\ IsNull(c.units)
                       /\ IsNull(c.po_amount)
                       /\ c.approved_budget.t # "str"
                       /\ NotNull(c.approved_budget) <=> NotNull(c.po_number)
                       /\ NotNull(c.approved_budget) => NotNull(c.budget)}

\* The rows of the sheets imported one after another: a vendor, no unit cost.
SheetRows ==
    {[pr_number |-> p, vendor |-> v, unit_cost |-> Null, department |-> Null,
      directorate |-> Null, cells |-> cs] :
        p \in PRCells, v \in VendorCells \ {Null}, cs \in [YearIdx -> SheetCells]}

NoRow == [pr_number |-> Null, vendor |-> Null, unit_cost |-> Null,
          department |-> Null, directorate |-> Null,
          cells |-> [k \in YearIdx |-> [budget |-> Null, units |-> Null, po_amount |-> Null,
                                        po_number |-> Null, approved_budget |-> Null]]]

\* ------------------------------------------------------------------ state
VARIABLES
    contracts,     \* amc_contracts: a set of rows
    pos,           \* amc_pos: a set of rows
    budgets,       \* amc_budgets: a set of rows
    attachments,   \* attachment: a set of rows
    yearly_budget, \* yearly_budget: a set of rows
    clock,         \* datetime.now(), in seconds
    imp,           \* insert_excel_data: position and locals of the running import
    errors,        \* st.error messages of the import, shown until the next page run
    quota,         \* operations started so far (bounds the behaviours)
    writer,        \* for each contract id, the path that wrote the row last
    last,          \* the step just taken and its outcome
    ybs,           \* yearly budget page: each session's position and form values
    refs,          \* the reference tables departments, accounts and status_master
    ss             \* st.session_state of the browser session on the record pages

vars == <<contracts, pos, budgets, attachments, yearly_budget, clock, imp, errors,
          quota, writer, last, ybs, refs, ss>>

MaxOf(S) == CHOOSE m \in S : \A x \in S : x <= m

\* INTEGER PRIMARY KEY: the next rowid is one more than the largest in use.
NextRowId(table) == IF table = {} THEN 1 ELSE MaxOf({r.id : r \in table}) + 1

ImpIdle ==
    [pc |-> "idle", rowsLeft |-> 0, i |-> 0, row |-> NoRow, pr_number |-> Null,
     unit_cost |-> Null, dept_id |-> Null, yi |-> 0, success_contracts |-> 0,
     success_pos |-> 0]

NoStep == [op |-> "none"]

Sessions == 1..NSessions

YbIdle == [pc |-> "form", year |-> 0, amount |-> 0]

\* The reference tables before any department, account or status is entered.
NoRefs == [departments |-> {}, accounts |-> {}, status_master |-> {}]

\* One department, one account and one status, as the dropdowns of the add
\* and edit pages need them.
SomeRefs ==
    [departments |-> {[id |-> 1, name_en |-> "IT", directorate |-> "Tech"]},
     accounts |-> {[id |-> 1, account |-> "5001", name_en |-> "Licences"]},
     status_master |-> {[id |-> 1, name_en |-> "Open", category |-> "case"]}]

\* The filters of the record list as the page first shows them, in the order
\* of the signature: PR, department, year, vendor, status, account number, PO.
NoFilters == [k \in 1..7 |-> <<>>]

\* A session that has run no page yet: st.session_state holds no key.
NoSession == [page |-> "none", id |-> 0, state |-> <<>>, filters |-> NoFilters]

InitDb ==
    /\ contracts = {}
    /\ pos = {}
    /\ budgets = {}
    /\ attachments = {}
    /\ yearly_budget = {}
    /\ clock = 0
    /\ errors = {}
    /\ quota = [rows |-> 0, adds |-> 0, submits |-> 0, edits |-> 0, saves |-> 0, opens |-> 0]
    /\ writer = <<>>
    /\ last = NoStep
    /\ ybs = [s \in Sessions |-> YbIdle]
    /\ ss = NoSession

Init ==
    /\ InitDb
    /\ refs = NoRefs
    /\ imp = ImpIdle

\* ------------------------------------------------------------------ import
\* _pick: the value under the first alias present in the row, None for NaN.
_pick(cell) == cell

\* The columns insert_excel_data writes.
payload_cols ==
    {"pr_number", "year", "ref_departments", "vendor", "approval_amount", "approved_budget", "budget_year",
     "approved", "created", "created_by", "modified", "modified_by", "version"}

\* Columns of the live schema (PRAGMA table_info).
valid_cols == payload_cols \cup {"id", "contract_reference"}

\* approval_amount for (PR, Year): the budget cell, else units * unit cost.
Amt(cells, unit_cost) ==
    IF NotNull(cells.budget) THEN cells.budget
    ELSE IF NotNull(unit_cost) /\ NotNull(cells.units)
              /\ NotNull(_to_float(cells.units))
         THEN Num(_to_float(cells.units).v * unit_cost.v)
         ELSE Null

\* The signal without the unit-count column.
has_signal_NoUnits(cells) ==
    \/ NotNull(cells.budget)
    \/ NotNull(cells.po_amount)
    \/ NotNull(cells.po_number)
    \/ NotNull(cells.approved_budget)

has_signal(cells) ==
    \/ NotNull(cells.budget)
    \/ NotNull(cells.units)
    \/ NotNull(cells.po_amount)
    \/ NotNull(cells.po_number)
    \/ NotNull(cells.approved_budget)

\* The approved flag taken from the cell instead of the parsed amount.
Payload_ApprovedFromCell(pr_number, y, dept_id, vendor, unit_cost, cells, now) ==
    LET approved_budget_val == _to_float(cells.approved_budget)
        budget_year_val == IF NotNull(approved_budget_val) THEN Num(y) ELSE Null
    IN  [pr_number |-> pr_number,
         year |-> Num(y),
         ref_departments |-> dept_id,
         vendor |-> _pick(vendor),
         approval_amount |-> _to_float(Amt(cells, unit_cost)),
         approved_budget |-> approved_budget_val,
         budget_year |-> budget_year_val,
         approved |-> IF NotNull(cells.approved_budget) THEN 1 ELSE 0,
         created |-> now,
         created_by |-> "admin",
         modified |-> now,
         modified_by |-> "admin",
         version |-> 1]

Payload(pr_number, y, dept_id, vendor, unit_cost, cells, now) ==
    LET approved_budget_val == _to_float(cells.approved_budget)
        budget_year_val == IF NotNull(approved_budget_val) THEN Num(y) ELSE Null
    IN  [pr_number |-> pr_number,
         year |-> Num(y),
         ref_departments |-> dept_id,
         vendor |-> _pick(vendor),
         approval_amount |-> _to_float(Amt(cells, unit_cost)),
         approved_budget |-> approved_budget_val,
         budget_year |-> budget_year_val,
         approved |-> IF NotNull(approved_budget_val) THEN 1 ELSE 0,
         created |-> now,
         created_by |-> "admin",
         modified |-> now,
         modified_by |-> "admin",
         version |-> 1]

\* A new row: the columns the INSERT does not name take their default, NULL.
NewContract(id, payload) ==
    [c \in valid_cols |->
        IF c = "id" THEN id
        ELSE IF c \in DOMAIN payload THEN payload[c]
        ELSE Null]

\* A merge in place of the assignment: a NULL of the payload keeps the stored value.
Assign_KeepOldOnNull(row, payload) ==
    [c \in DOMAIN row |->
        IF c \in (DOMAIN payload \cap valid_cols) \ {"pr_number", "year"}
        THEN IF c \in {"vendor", "approval_amount", "approved_budget", "budget_year"}
                /\ IsNull(payload[c])
             THEN row[c] ELSE payload[c]
        ELSE row[c]]

\* DO UPDATE SET c = excluded.c, for the payload's columns other than the key.
Assign(row, payload) ==
    [c \in DOMAIN row |->
        IF c \in (DOMAIN payload \cap valid_cols) \ {"pr_number", "year"}
        THEN payload[c] ELSE row[c]]

\* The rows the unique index on (pr_number, year) finds in conflict.
Conflicts(table, payload) ==
    {r \in table : r.pr_number = payload.pr_number /\ r.year = payload.year}

\* A plain INSERT, without the conflict clause.
Upsert_PlainInsert(table, payload) ==
    table \cup {NewContract(NextRowId(table), payload)}

\* INSERT ... ON CONFLICT(pr_number, year) DO UPDATE SET ...
Upsert(table, payload) ==
    IF Conflicts(table, payload) = {}
    THEN table \cup {NewContract(NextRowId(table), payload)}
    ELSE {IF r \in Conflicts(table, payload) THEN Assign(r, payload) ELSE r : r \in table}

\* The ids of the rows the upsert wrote.
Written(table, payload) ==
    IF Conflicts(table, payload) = {} THEN {NextRowId(table)}
    ELSE {r.id : r \in Conflicts(table, payload)}

Stamp(w, ids, path) ==
    [id \in DOMAIN w \cup ids |-> IF id \in ids THEN path ELSE w[id]]

\* An upsert of the PO row in place of the INSERT.
InsertPo_Replace(table, row) ==
    {r \in table : ~(r.pr_number = row.pr_number /\ r.year = row.year)} \cup {row}

\* INSERT INTO amc_pos
InsertPo(table, row) == table \cup {row}

PoRow(id, pr_number, y, po_no_val, po_amt_val) ==
    [id |-> id, ref_amc_contract |-> Null, pr_number |-> pr_number, year |-> Num(y),
     po_number |-> IF IsNull(po_no_val) THEN Null ELSE str(po_no_val),
     po_amount |-> IF IsNull(po_amt_val) THEN Null ELSE _to_float(po_amt_val),
     pr_amount |-> Null, version |-> 1]

\* str(v).strip().lower() on the texts of the model.
strip_lower ==
    [t \in {"IT", "it", " IT ", "Ops", "HR", "Tech", "TECH", "Net", "Fin"} |->
        CASE t \in {"IT", "it", " IT "} -> "it"
          [] t = "Ops" -> "ops"
          [] t = "HR" -> "hr"
          [] t \in {"Tech", "TECH"} -> "tech"
          [] t = "Net" -> "net"
          [] OTHER -> "fin"]

\* m.iloc[0] of the departments selected: the first in rowid order.
FirstId(rows) == Num(CHOOSE i \in {d.id : d \in rows} : \A d \in rows : i <= d.id)

\* The directorate is tried first and the name after it.
ResolveDept_DirectorateFirst(departments, dept_val, directorate_val) ==
    LET byName == IF Falsy(dept_val) THEN {}
                  ELSE {d \in departments : strip_lower[d.name_en] = strip_lower[dept_val.v]}
        byDirectorate ==
            IF Falsy(directorate_val) THEN {}
            ELSE {d \in departments :
                     strip_lower[d.directorate] = strip_lower[directorate_val.v]}
    IN  IF byDirectorate # {} THEN FirstId(byDirectorate)
        ELSE IF byName # {} THEN FirstId(byName)
        ELSE Null

\* dept_id of a row: the department of the row's name, else of its directorate.
ResolveDept(departments, dept_val, directorate_val) ==
    LET byName == IF Falsy(dept_val) THEN {}
                  ELSE {d \in departments : strip_lower[d.name_en] = strip_lower[dept_val.v]}
        byDirectorate ==
            IF Falsy(directorate_val) THEN {}
            ELSE {d \in departments :
                     strip_lower[d.directorate] = strip_lower[directorate_val.v]}
    IN  IF byName # {} THEN FirstId(byName)
        ELSE IF byDirectorate # {} THEN FirstId(byDirectorate)
        ELSE Null

\* The "Import to Database" button: insert_excel_data starts on a sheet of n rows.
ImportStart ==
    /\ imp.pc = "idle"
    /\ quota.rows < MaxRows
    /\ \E n \in 1..(MaxRows - quota.rows) :
        /\ imp' = [ImpIdle EXCEPT !.pc = "row", !.rowsLeft = n]
        /\ quota' = [quota EXCEPT !.rows = @ + n]
    /\ errors' = {}
    /\ last' = [op |-> "import_start"]
    /\ UNCHANGED <<refs, ss, contracts, pos, budgets, attachments, yearly_budget, clock, writer, ybs>>

\* `break` in place of `continue`: the import ends with the row.
AfterRow_Break(st) == ImpIdle

\* After the last year of a row: the next row, or the end of the import.
AfterRow(st) ==
    IF st.rowsLeft = 0 THEN ImpIdle ELSE [st EXCEPT !.pc = "row"]

\* The head of one iteration of `for i, row in df.iterrows()`, on a row of Rows.
ImportRowFrom(Rows) ==
    /\ imp.pc = "row"
    /\ \E r \in Rows :
        LET pr_number == _pick(r.pr_number)
            st == [imp EXCEPT !.rowsLeft = @ - 1, !.i = @ + 1, !.row = r,
                              !.pr_number = pr_number,
                              !.unit_cost = _to_float(_pick(r.unit_cost)),
                              !.dept_id = ResolveDept(refs.departments, _pick(r.department),
                                                      _pick(r.directorate)),
                              !.yi = 1]
        IN  IF Falsy(pr_number)
            THEN /\ errors' = errors \cup {[kind |-> "missing_pr", row |-> st.i]}
                 /\ imp' = AfterRow(st)
                 /\ last' = [op |-> "import_row", skipped |-> TRUE, pr_number |-> pr_number]
            ELSE /\ errors' = errors
                 /\ imp' = [st EXCEPT !.pc = "years"]
                 /\ last' = [op |-> "import_row", skipped |-> FALSE, pr_number |-> pr_number]
    /\ UNCHANGED <<refs, ss, contracts, pos, budgets, attachments, yearly_budget, clock, quota,
                   writer, ybs>>

ImportRow == ImportRowFrom(SheetRows)

\* The exception of a failed upsert ends the import.
Advance_AbortOnFailure(st, upsert, po) ==
    IF upsert = "failed" THEN ImpIdle
    ELSE IF st.yi < Len(detected_years) THEN [st EXCEPT !.yi = @ + 1]
    ELSE AfterRow(st)

\* The import's position and counters after one (row, year) iteration; upsert
\* and po are the outcomes of its two writes: "none", "failed" or "ok".
Advance(st, upsert, po) ==
    LET nxt == IF st.yi < Len(detected_years)
               THEN [st EXCEPT !.yi = @ + 1]
               ELSE AfterRow(st)
    IN  IF nxt.pc = "idle" THEN nxt
        ELSE [nxt EXCEPT !.success_contracts = IF upsert = "ok" THEN @ + 1 ELSE @,
                         !.success_pos = IF po = "ok" THEN @ + 1 ELSE @]

\* The payload of the current (row, year) iteration.
CurrentYear == detected_years[imp.yi]

CurrentCells == imp.row.cells[imp.yi]

CurrentPayload ==
    Payload(imp.pr_number, CurrentYear, imp.dept_id, imp.row.vendor, imp.unit_cost,
            CurrentCells, clock)

\* One iteration of `for y in detected_years` for the current row. The
\* database may refuse either write (constraint, lock timeout).
ImportYear ==
    /\ imp.pc = "years"
    /\ \E upsert_fails \in BOOLEAN, po_fails \in BOOLEAN :
        LET y == CurrentYear
            cells == CurrentCells
            payload == CurrentPayload
            signal == has_signal(cells)
            has_po == NotNull(cells.po_number) \/ NotNull(cells.po_amount)
            upsert == IF ~signal THEN "none" ELSE IF upsert_fails THEN "failed" ELSE "ok"
            po == IF ~(signal /\ has_po) THEN "none" ELSE IF po_fails THEN "failed" ELSE "ok"
        IN  /\ upsert_fails => signal
            /\ po_fails => (signal /\ has_po)
            /\ contracts' = IF upsert = "ok" THEN Upsert(contracts, payload) ELSE contracts
            /\ writer' = IF upsert = "ok"
                         THEN Stamp(writer, Written(contracts, payload), "import")
                         ELSE writer
            /\ pos' = IF po = "ok"
                      THEN InsertPo(pos, PoRow(NextRowId(pos), imp.pr_number, y,
                                               cells.po_number, cells.po_amount))
                      ELSE pos
            /\ errors' = errors
                 \cup (IF upsert = "failed"
                       THEN {[kind |-> "upsert_failed", pr_number |-> imp.pr_number, year |-> y]}
                       ELSE {})
                 \cup (IF po = "failed"
                       THEN {[kind |-> "po_failed", pr_number |-> imp.pr_number, year |-> y]}
                       ELSE {})
            /\ imp' = Advance(imp, upsert, po)
            /\ last' = [op |-> "import_year", pr_number |-> imp.pr_number, year |-> y,
                        cells |-> cells, payload |-> payload,
                        old |-> IF signal THEN Conflicts(contracts, payload) ELSE {},
                        upsert |-> upsert, po |-> po]
    /\ UNCHANGED <<refs, ss, budgets, attachments, yearly_budget, clock, quota, ybs>>

\* ------------------------------------------------------------------ manual add
\* str.strip() on the texts of the model.
strip(t) == IF t = " " THEN "" ELSE t

\* is_valid_email: the regular expression, on the texts of the model.
is_valid_email(email) == email = "" \/ email = "a@b.co"

\* str.isdigit() on the texts of the model.
isdigit(t) == t = "123"

is_pr_number_exists(pr_number) == \E r \in contracts : r.pr_number = Num(pr_number)

\* Every form the add page can submit.
AllAddForms ==
    [pr_number : PRNumbers, approval_amount : {0, 100}, vendor : {"", " ", "V"},
     vendor_email : {"", "a@b.co", "bad"}, vendor_mobile : {"", "123", "12a"},
     start_date : 1..2, end_date : 1..2, year : {2024, 2025},
     contract_reference : {"CR"}, approved_flag : BOOLEAN,
     po_number : {"", "7"}, po_amount : {0, 50}, nfiles : 0..MaxFiles]

\* The forms submitted between the imports: well-formed ones for the first
\* year, with as many files as a form carries.
AddForms ==
    {f \in AllAddForms : /\ f.year = detected_years[1] /\ f.nfiles = MaxFiles
                         /\ f.approval_amount = 100 /\ f.vendor = "V"
                         /\ f.vendor_email = "" /\ f.vendor_mobile = ""
                         /\ f.start_date = 1 /\ f.end_date = 2
                         /\ f.po_number = "7" /\ f.po_amount = 50}

\* The validation of the add page's Submit.
AddErrors(f) ==
    (IF is_pr_number_exists(f.pr_number) THEN {"pr_exists"} ELSE {})
    \cup (IF f.approval_amount <= 0 THEN {"amount"} ELSE {})
    \cup (IF strip(f.vendor) = "" THEN {"vendor"} ELSE {})
    \cup (IF f.vendor_email # "" /\ ~is_valid_email(f.vendor_email) THEN {"email"} ELSE {})
    \cup (IF f.vendor_mobile # "" /\ ~isdigit(f.vendor_mobile) THEN {"mobile"} ELSE {})
    \cup (IF f.start_date >= f.end_date THEN {"dates"} ELSE {})
    \cup (IF f.approved_flag /\ strip(f.po_number) = "" THEN {"po_number"} ELSE {})
    \cup (IF f.approved_flag /\ f.po_amount <= 0 THEN {"po_amount"} ELSE {})

\* Errors that do not stop the submission.
Rejected_Never(errs) == FALSE

\* `if errors:` after the validation of a form.
Rejected(errs) == errs # {}

\* insert_amc_contract: the amc_contracts row.
AddedContract(id, f, now) ==
    [id |-> id, pr_number |-> Num(f.pr_number), year |-> Num(f.year),
     ref_departments |-> IF refs.departments = {} THEN Null ELSE FirstId(refs.departments),
     vendor |-> Txt(strip(f.vendor)), approval_amount |-> Num(f.approval_amount),
     approved_budget |-> Null, budget_year |-> Null,
     approved |-> IF f.approved_flag THEN 1 ELSE 0,
     contract_reference |-> Txt(f.contract_reference),
     created |-> now, created_by |-> "admin", modified |-> now, modified_by |-> "admin",
     version |-> 1]

\* insert_amc_pos
AddedPo(id, ref_amc_contract, f) ==
    [id |-> id, ref_amc_contract |-> Num(ref_amc_contract), pr_number |-> str(Num(f.pr_number)),
     year |-> Num(f.year), po_number |-> Txt(strip(f.po_number)),
     po_amount |-> Num(f.po_amount), pr_amount |-> Num(f.approval_amount), version |-> 1]

\* save_uploads_and_record: one attachment row per uploaded file.
Uploaded(table, ref_id, nfiles) ==
    {[id |-> NextRowId(table) + k - 1, table_name |-> "amc_contracts", ref_id |-> ref_id]
        : k \in 1..nfiles}

\* The add page's Submit, on a form of Forms.
AddSubmitFrom(Forms) ==
    /\ imp.pc = "idle"
    /\ quota.adds < MaxAdds
    /\ \E f \in Forms :
        LET errs == AddErrors(f)
            id == NextRowId(contracts)
        IN  IF Rejected(errs)
            THEN /\ last' = [op |-> "add", errors |-> errs, id |-> 0]
                 /\ UNCHANGED <<contracts, pos, budgets, attachments, writer>>
            ELSE /\ contracts' = contracts \cup {AddedContract(id, f, clock)}
                 /\ budgets' = budgets \cup {[id |-> NextRowId(budgets),
                                              ref_amc_contract |-> id, year |-> f.year]}
                 /\ attachments' = attachments \cup Uploaded(attachments, id, f.nfiles)
                 /\ pos' = IF f.approved_flag
                           THEN pos \cup {AddedPo(NextRowId(pos), id, f)}
                           ELSE pos
                 /\ writer' = Stamp(writer, {id}, "add")
                 /\ last' = [op |-> "add", errors |-> errs, id |-> id]
    /\ quota' = [quota EXCEPT !.adds = @ + 1]
    /\ errors' = {}
    /\ UNCHANGED <<refs, ss, yearly_budget, clock, imp, ybs>>

AddSubmit == AddSubmitFrom(AddForms)

\* ------------------------------------------------------------------ delete
\* A cascading delete.
delete_record_cascade(record_id) ==
    [contracts |-> {r \in contracts : r.id # record_id},
     pos |-> {p \in pos : p.ref_amc_contract # Num(record_id)},
     budgets |-> budgets,
     attachments |-> {a \in attachments : a.ref_id # record_id}]

\* delete_record: DELETE FROM amc_contracts WHERE id = ?; the tables after it.
delete_record(record_id) ==
    [contracts |-> {r \in contracts : r.id # record_id},
     pos |-> pos, budgets |-> budgets, attachments |-> attachments]

\* "Yes, Delete it" on the edit page of a record.
DeleteRecord ==
    /\ imp.pc = "idle"
    /\ \E c \in contracts :
        LET db == delete_record(c.id)
        IN  /\ contracts' = db.contracts
            /\ pos' = db.pos
            /\ budgets' = db.budgets
            /\ attachments' = db.attachments
            /\ writer' = [id \in DOMAIN writer \ {c.id} |-> writer[id]]
            /\ last' = [op |-> "delete", id |-> c.id]
    /\ errors' = {}
    /\ UNCHANGED <<refs, ss, yearly_budget, clock, imp, quota, ybs>>

\* ------------------------------------------------------------------ edit
\* A text widget's value for a stored column: "" for NULL.
WidgetText(v) == IF IsNull(v) THEN "" ELSE v.v

\* A number widget's value for a stored column: 0 for NULL.
WidgetNumber(v) == IF IsNull(v) THEN 0 ELSE v.v

\* The forms Save Changes can submit for the stored record c, with its PR
\* number and year as the page shows them.
EditForms(c) ==
    [pr_number : {WidgetText(str(c.pr_number))}, year : {WidgetNumber(c.year)},
     approval_amount : {WidgetNumber(c.approval_amount), 200},
     start_date : 1..2, end_date : 1..2,
     approved_flag : BOOLEAN, po_number : {"", "8"}, po_amount : {0, 60},
     nfiles : 0..MaxFiles]

\* The validation of Save Changes.
EditErrors(f) ==
    (IF f.start_date >= f.end_date THEN {"dates"} ELSE {})
    \cup (IF f.approved_flag /\ strip(f.po_number) = "" THEN {"po_number"} ELSE {})
    \cup (IF f.approved_flag /\ f.po_amount <= 0 THEN {"po_amount"} ELSE {})

\* The value the pr_number column holds for a text bound to it: the number a
\* text of digits writes, as the add page and the import store it.
pr_number_column ==
    [t \in {ToString(p) : p \in 1..(MaxPR + 1)} \cup {""} |->
        IF t = "" THEN Txt("") ELSE Num(CHOOSE p \in 1..(MaxPR + 1) : ToString(p) = t)]

\* The dropdown's department: the record's, or the first when it has none.
SelectedDept(c) ==
    IF NotNull(c.ref_departments) /\ \E d \in refs.departments : Num(d.id) = c.ref_departments
    THEN c.ref_departments
    ELSE FirstId(refs.departments)

\* A dropdown without options yields None, and the lookup of its id raises.
DropdownFails ==
    refs.departments = {} \/ refs.accounts = {} \/ refs.status_master = {}

\* The rows other than c that hold the form's (pr_number, year).
KeyHolders(c, f) ==
    {r \in contracts \ {c} :
        r.pr_number = pr_number_column[f.pr_number] /\ r.year = Num(f.year)}

\* An update that the unique index on (pr_number, year) never refuses.
UniqueViolation_Never(c, f) == FALSE

\* The unique index on (pr_number, year) refuses the update.
UniqueViolation(c, f) == KeyHolders(c, f) # {}

\* update_record: UPDATE amc_contracts SET ... WHERE id = ?
update_record(c, f, now) ==
    [c EXCEPT !.pr_number = pr_number_column[f.pr_number],
              !.year = Num(f.year),
              !.ref_departments = SelectedDept(c),
              !.approval_amount = Num(f.approval_amount),
              !.approved = IF f.approved_flag THEN 1 ELSE 0,
              !.contract_reference = Txt(WidgetText(c.contract_reference)),
              !.vendor = Txt(WidgetText(c.vendor)),
              !.modified = now,
              !.modified_by = "admin"]

\* The latest PO row of (ref_amc_contract, year): ORDER BY id DESC LIMIT 1.
LatestPo(table, ref_amc_contract, year) ==
    LET rows == {p \in table : p.ref_amc_contract = Num(ref_amc_contract) /\ p.year = year}
    IN  {p \in rows : \A q \in rows : q.id <= p.id}

\* An insert whether or not the contract has a PO row for the year.
upsert_amc_pos_AlwaysInsert(table, ref_amc_contract, year, pr_amount, pr_number, po_number, po_amount) ==
    table \cup {[id |-> NextRowId(table), ref_amc_contract |-> Num(ref_amc_contract),
                 pr_number |-> pr_number, year |-> year,
                 po_number |-> Txt(po_number), po_amount |-> Num(po_amount),
                 pr_amount |-> Num(pr_amount), version |-> 1]}

\* upsert_amc_pos: update the latest PO row of (ref_amc_contract, year), or
\* insert one.
upsert_amc_pos(table, ref_amc_contract, year, pr_amount, pr_number, po_number, po_amount) ==
    LET found == LatestPo(table, ref_amc_contract, year)
    IN  IF found # {}
        THEN (table \ found) \cup
             {[p EXCEPT !.po_amount = Num(po_amount), !.po_number = Txt(po_number),
                        !.pr_amount = Num(pr_amount), !.pr_number = pr_number,
                        !.version = @ + 1] : p \in found}
        ELSE table \cup {[id |-> NextRowId(table), ref_amc_contract |-> Num(ref_amc_contract),
                          pr_number |-> pr_number, year |-> year,
                          po_number |-> Txt(po_number), po_amount |-> Num(po_amount),
                          pr_amount |-> Num(pr_amount), version |-> 1]}

\* Save Changes on the edit page of a record c, with a form of forms[c], while
\* fewer than limit saves of the kind were made: validation, update_record,
\* the uploads, and the PO upsert when Approved is checked. An exception of
\* the dropdown lookup or of the update is not caught and ends the run.
EditSaveFrom(forms, kind, limit) ==
    /\ imp.pc = "idle"
    /\ quota[kind] < limit
    /\ \E c \in contracts : \E f \in forms[c] : \E update_fails \in BOOLEAN :
        LET errs == EditErrors(f)
            fails == update_fails \/ DropdownFails \/ UniqueViolation(c, f)
            saved == ~Rejected(errs) /\ ~fails
        IN  /\ update_fails => errs = {}
            /\ contracts' = IF saved
                             THEN (contracts \ {c}) \cup {update_record(c, f, clock)}
                             ELSE contracts
            /\ attachments' = IF saved
                               THEN attachments \cup Uploaded(attachments, c.id, f.nfiles)
                               ELSE attachments
            /\ pos' = IF saved /\ f.approved_flag
                      THEN upsert_amc_pos(pos, c.id, Num(f.year), f.approval_amount,
                                          Txt(f.pr_number), strip(f.po_number), f.po_amount)
                      ELSE pos
            /\ writer' = IF saved THEN Stamp(writer, {c.id}, "edit") ELSE writer
            /\ last' = [op |-> "edit", id |-> c.id, errors |-> errs,
                        pr_number |-> f.pr_number, year |-> f.year,
                        approved |-> f.approved_flag,
                        outcome |-> IF errs # {} THEN "rejected"
                                    ELSE IF fails THEN "failed" ELSE "saved"]
    /\ quota' = [quota EXCEPT ![kind] = @ + 1]
    /\ errors' = {}
    /\ UNCHANGED <<refs, ss, budgets, yearly_budget, clock, imp, ybs>>

EditSave == EditSaveFrom([c \in contracts |-> EditForms(c)], "edits", MaxEdits)

\* ------------------------------------------------------------------ clock
\* The wall clock advances.
Tick ==
    /\ clock < MaxClock
    /\ clock' = clock + 1
    /\ last' = [op |-> "tick"]
    /\ UNCHANGED <<refs, ss, contracts, pos, budgets, attachments, yearly_budget, imp, errors,
                   quota, writer, ybs>>

Next ==
    \/ ImportStart
    \/ ImportRow
    \/ ImportYear
    \/ AddSubmit
    \/ DeleteRecord
    \/ Tick

Spec == Init /\ [][Next]_vars

\* ------------------------------------------------- import of one arbitrary row
\* insert_excel_data on a sheet of one row, any row, into the empty database.
InitRow ==
    /\ InitDb
    /\ refs = NoRefs
    /\ imp = [ImpIdle EXCEPT !.pc = "row", !.rowsLeft = 1]

ImportAnyRow == ImportRowFrom(AllRows)

NextRow ==
    \/ ImportAnyRow
    \/ ImportYear
    \/ AddSubmit

SpecRow == InitRow /\ [][NextRow]_vars

\* ------------------------------------------------- amounts of one row
\* Rows for the approval amount: a budget cell that may be a text with a
\* thousands separator, a unit count and a unit cost.
AmountCells ==
    [budget : BudgetCells \cup {Txt("15,000")}, units : UnitsCells, po_amount : {Null},
     po_number : {Null}, approved_budget : {Null}]

AmountRows ==
    [pr_number : {Num(p) : p \in PRNumbers}, vendor : VendorCells, unit_cost : UnitCostCells,
     department : {Null}, directorate : {Null}, cells : [YearIdx -> AmountCells]]

ImportAmountRow == ImportRowFrom(AmountRows)

NextAmounts ==
    \/ ImportAmountRow
    \/ ImportYear

SpecAmounts == InitRow /\ [][NextAmounts]_vars

\* ------------------------------------------------- departments of one row
\* The departments table as the department page filled it.
AllDepartments ==
    {[id |-> 1, name_en |-> "IT", directorate |-> "Net"],
     [id |-> 2, name_en |-> "Ops", directorate |-> "Tech"],
     [id |-> 3, name_en |-> "Net", directorate |-> "Tech"]}

DeptCells == {Null, Txt("it"), Txt(" IT "), Txt("HR")}

DirectorateCells == {Null, Txt("TECH"), Txt("Fin")}

\* Rows with a department and a directorate and a budget for the first year.
DeptRows ==
    {r \in [pr_number : {Num(p) : p \in PRNumbers}, vendor : {Txt("V")}, unit_cost : {Null},
            department : DeptCells, directorate : DirectorateCells,
            cells : [YearIdx -> SheetCells]] :
        /\ NotNull(r.cells[1].budget)
        /\ IsNull(r.cells[1].approved_budget)
        /\ IsNull(r.cells[2].budget)}

\* insert_excel_data on a sheet of one row, with departments in the database.
InitDept ==
    /\ InitDb
    /\ refs \in {[NoRefs EXCEPT !.departments = d] : d \in SUBSET AllDepartments}
    /\ imp = [ImpIdle EXCEPT !.pc = "row", !.rowsLeft = 1]

ImportDeptRow == ImportRowFrom(DeptRows)

NextDept ==
    \/ ImportDeptRow
    \/ ImportYear

SpecDept == InitDept /\ [][NextDept]_vars

\* ------------------------------------------------- manual add and edit
\* Any form of the add page and any form of the edit page, after the import
\* of a sheet of one row.
AddAnySubmit == AddSubmitFrom(AllAddForms)

NextForms ==
    \/ ImportRow
    \/ ImportYear
    \/ AddAnySubmit
    \/ EditSave

\* The import of a sheet of one row into the empty database, with reference
\* data for the dropdowns.
InitForms ==
    /\ InitDb
    /\ refs = SomeRefs
    /\ imp = [ImpIdle EXCEPT !.pc = "row", !.rowsLeft = 1]

SpecForms == InitForms /\ [][NextForms]_vars

\* ------------------------------------------------- saves of stored records
\* Valid forms that leave the PR number and the year as the page shows them.
SaveForms(c) ==
    {f \in EditForms(c) : /\ f.start_date < f.end_date /\ f.nfiles = 0
                          /\ f.approval_amount = WidgetNumber(c.approval_amount)
                          /\ f.po_number = "8" /\ f.po_amount = 60}

EditSaveAgain == EditSaveFrom([c \in contracts |-> SaveForms(c)], "saves", MaxSaves)

\* Saves of records that an import and the add page created.
NextSaves ==
    \/ ImportRow
    \/ ImportYear
    \/ AddSubmit
    \/ EditSaveAgain

SpecSaves == InitForms /\ [][NextSaves]_vars

\* ------------------------------------------------- edits of the key
\* Valid forms that set any PR number and any year.
KeyForms(c) ==
    [pr_number : {ToString(p) : p \in 1..(MaxPR + 1)}, year : {2024, 2025},
     approval_amount : {WidgetNumber(c.approval_amount)},
     start_date : {1}, end_date : {2}, approved_flag : {FALSE},
     po_number : {""}, po_amount : {0}, nfiles : {0}]

EditKey == EditSaveFrom([c \in contracts |-> KeyForms(c)], "saves", MaxSaves)

\* Adds and edits of the key, on the records of an import.
NextKeys ==
    \/ ImportRow
    \/ ImportYear
    \/ AddSubmit
    \/ EditKey

SpecKeys == InitForms /\ [][NextKeys]_vars

\* ------------------------------------------------------------------ yearly budget
YbYears == {2024, 2025}

\* The amounts typed into the form.
YbAmounts == (0..MaxAmount) \cup {100000}

\* The check answering that no year has a row.
year_exists_Never(year) == FALSE

year_exists(year) == \E r \in yearly_budget : r.year = year

\* Save on the add-year-budget form of session s: year_exists and the amount
\* check; the insert follows in a second database call.
YbSubmit(s) ==
    /\ ybs[s].pc = "form"
    /\ quota.submits < MaxSubmits
    /\ \E year \in YbYears, amount \in YbAmounts :
        LET errs == (IF year_exists(year) THEN {"year_exists"} ELSE {})
                    \cup (IF amount <= 0 THEN {"amount"} ELSE {})
        IN  /\ ybs' = [ybs EXCEPT ![s] =
                         IF errs # {} THEN YbIdle
                         ELSE [pc |-> "insert", year |-> year, amount |-> amount]]
            /\ last' = [op |-> "yb_submit", s |-> s, errors |-> errs,
                        year |-> year, amount |-> amount]
    /\ quota' = [quota EXCEPT !.submits = @ + 1]
    /\ UNCHANGED <<refs, ss, contracts, pos, budgets, attachments, yearly_budget, clock, imp,
                   errors, writer>>

\* INSERT INTO yearly_budget
YbRow(id, year, amount, now) ==
    [id |-> id, year |-> year, VALUE |-> amount, created |-> now, version |-> 1]

\* The insert under a uniqueness constraint on year.
insert_year_budget_unique(table, year, amount, now) ==
    IF \E r \in table : r.year = year THEN table
    ELSE table \cup {YbRow(NextRowId(table), year, amount, now)}

insert_year_budget(table, year, amount, now) ==
    table \cup {YbRow(NextRowId(table), year, amount, now)}

\* insert_year_budget of session s, after its checks passed.
YbInsert(s) ==
    /\ ybs[s].pc = "insert"
    /\ yearly_budget' = insert_year_budget(yearly_budget, ybs[s].year, ybs[s].amount, clock)
    /\ ybs' = [ybs EXCEPT ![s] = YbIdle]
    /\ last' = [op |-> "yb_insert", s |-> s]
    /\ UNCHANGED <<refs, ss, contracts, pos, budgets, attachments, clock, imp, errors, quota, writer>>

NextYb ==
    \/ \E s \in Sessions : YbSubmit(s)
    \/ \E s \in Sessions : YbInsert(s)

SpecYb == Init /\ [][NextYb]_vars

\* ------------------------------------------------------------------ headers
\* A normalised column header is the sequence of its words, which single
\* spaces separate. The words of the model:
HeaderWords ==
    {"2024", "2025", "20245", "budget", "approved", "approval", "units", "po", "po#",
     "(omr)", "x"}

Headers == UNION {[1..n -> HeaderWords] : n \in 1..MaxHeaderLen}

\* No column: _find_col's None.
NoCol == <<>>

HeaderYears == {2024, 2025}

\* \b(20[0-9]{2})\b finds year y in word w.
IsYearToken(w, y) == w = ToString(y)

\* The word begins with the digits of year y: what ^{y} asks of a header's
\* first word.
BeginsWithYear(w, y) ==
    \/ w = ToString(y)
    \/ y = 2024 /\ w = "20245"

\* The word holds the text "po", "po#", "(omr)".
HasPo(w) == w \in {"po", "po#"}

HasPoHash(w) == w = "po#"

HasOmr(w) == w \in {"(omr)", "pr(omr)"}

\* (\s*\(.*\))?$ after word k of header h: the header ends there, or goes on
\* with "(" and ends with ")".
ParenTail(h, k) ==
    \/ k = Len(h)
    \/ k < Len(h) /\ h[k + 1] \in {"(omr)"} /\ h[Len(h)] \in {"(omr)"}

\* h begins with the words ws and ParenTail follows them.
WordsThenTail(h, ws) ==
    /\ Len(h) >= Len(ws)
    /\ \A i \in 1..Len(ws) : h[i] = ws[i]
    /\ ParenTail(h, Len(ws))

\* ^{y}\s*budget(\s*\(.*\))?$ | ^budget\s*approval\s*{y}(\s*\(.*\))?$ |
\* ^{y}.*budget(\s*\(.*\))?$
IsBudgetCol(h, y) ==
    \/ WordsThenTail(h, <<ToString(y), "budget">>)
    \/ WordsThenTail(h, <<"budget", "approval", ToString(y)>>)
    \/ /\ BeginsWithYear(h[1], y)
       /\ \E k \in 2..Len(h) : h[k] = "budget" /\ ParenTail(h, k)

\* ^{y}\s*units$
IsUnitsCol(h, y) == h = <<ToString(y), "units">>

\* ^{y}\s*po.*\(omr\) | ^{y}\s*po\s*/\s*pr\(omr\) | ^{y}.*po.*\(omr\)
IsPoAmountCol(h, y) ==
    \/ /\ Len(h) >= 3 /\ h[1] = ToString(y) /\ HasPo(h[2])
       /\ \E k \in 3..Len(h) : HasOmr(h[k])
    \/ /\ Len(h) >= 4
       /\ h[1] = ToString(y) /\ h[2] = "po" /\ h[3] = "/" /\ h[4] = "pr(omr)"
    \/ /\ BeginsWithYear(h[1], y)
       /\ \E j \in 2..Len(h) : \E k \in (j + 1)..Len(h) : HasPo(h[j]) /\ HasOmr(h[k])

\* ^{y}\s*po#?$ | ^{y}\s*po number$ | ^{y}.*po#
IsPoNumberCol(h, y) ==
    \/ h = <<ToString(y), "po">>
    \/ h = <<ToString(y), "po#">>
    \/ h = <<ToString(y), "po", "number">>
    \/ /\ BeginsWithYear(h[1], y)
       /\ \E k \in 2..Len(h) : HasPoHash(h[k])

\* ^approved\s*budget\s*{y}(\s*\(.*\))?$ | ^{y}\s*approved\s*budget(\s*\(.*\))?$ |
\* ^approval\s*budget\s*{y}(\s*\(.*\))?$ | ^{y}\s*approval\s*budget(\s*\(.*\))?$
IsApprovedBudgetCol(h, y) ==
    \/ WordsThenTail(h, <<"approved", "budget", ToString(y)>>)
    \/ WordsThenTail(h, <<ToString(y), "approved", "budget">>)
    \/ WordsThenTail(h, <<"approval", "budget", ToString(y)>>)
    \/ WordsThenTail(h, <<ToString(y), "approval", "budget">>)

PerYearFields == {"budget", "units", "po_amount", "po_number", "approved_budget"}

\* The patterns of a per-year field for year y, on header h.
MatchesField(h, field, y) ==
    CASE field = "budget" -> IsBudgetCol(h, y)
      [] field = "units" -> IsUnitsCol(h, y)
      [] field = "po_amount" -> IsPoAmountCol(h, y)
      [] field = "po_number" -> IsPoNumberCol(h, y)
      [] field = "approved_budget" -> IsApprovedBudgetCol(h, y)

\* _find_col: the first column that matches a pattern of the field, or None.
_find_col(cols, field, y) ==
    LET hits == {i \in 1..Len(cols) : MatchesField(cols[i], field, y)}
    IN  IF hits = {} THEN NoCol
        ELSE cols[CHOOSE i \in hits : \A j \in hits : i <= j]

\* The years whose token a header carries.
YearsIn(cols) ==
    {y \in HeaderYears : \E i \in 1..Len(cols) : \E k \in 1..Len(cols[i]) :
        IsYearToken(cols[i][k], y)}

\* The sheets of the model: any header, before a unit column of each year.
Sheets == {<<h, <<"2024", "units">>, <<"2025", "units">>>> : h \in Headers}

\* A sheet is uploaded and its headers are normalised.
UploadSheet ==
    /\ last.op = "none"
    /\ \E cols \in Sheets : last' = [op |-> "upload", cols |-> cols]
    /\ UNCHANGED <<refs, ss, contracts, pos, budgets, attachments, yearly_budget, clock, imp,
                   errors, quota, writer, ybs>>

\* insert_excel_data up to the row loop: the years of the headers and the
\* columns of each year's fields.
ResolveColumns ==
    /\ last.op = "upload"
    /\ last' = [op |-> "columns", cols |-> last.cols, years |-> YearsIn(last.cols),
                per_year |-> [y \in YearsIn(last.cols) |->
                                [field \in PerYearFields |-> _find_col(last.cols, field, y)]]]
    /\ UNCHANGED <<refs, ss, contracts, pos, budgets, attachments, yearly_budget, clock, imp,
                   errors, quota, writer, ybs>>

NextHeaders ==
    \/ UploadSheet
    \/ ResolveColumns

SpecHeaders == Init /\ [][NextHeaders]_vars

\* ------------------------------------------------------------------ aliases
\* A header as typed is a sequence of words and single whitespace characters.
Sp == " "

RawWords == {"Vendor", "VENDOR", "vendor", "Name", "x"}

\* str.lower() on the words of the model.
lower ==
    [w \in RawWords |->
        CASE w \in {"Vendor", "VENDOR", "vendor"} -> "vendor"
          [] w = "Name" -> "name"
          [] OTHER -> w]

\* The headers a sheet can carry: at least one word, and whitespace between
\* two words.
RawHeaders ==
    {h \in UNION {[1..n -> RawWords \cup {Sp}] : n \in 1..MaxRawLen} :
        /\ \E i \in 1..Len(h) : h[i] # Sp
        /\ \A i \in 1..(Len(h) - 1) : h[i] = Sp \/ h[i + 1] = Sp}

RECURSIVE WordsOf(_)
\* The words of a header, in order, without the whitespace around and between
\* them.
WordsOf(h) ==
    IF h = <<>> THEN <<>>
    ELSE IF Head(h) = Sp THEN WordsOf(Tail(h))
    ELSE <<Head(h)>> \o WordsOf(Tail(h))

\* The whitespace is collapsed and the case is kept.
_normalize_headers_KeepCase(h) == WordsOf(h)

\* _normalize_headers on one header: strip, lower, runs of whitespace to one
\* space; the result is the sequence of its words.
_normalize_headers(h) ==
    LET ws == WordsOf(h) IN [i \in 1..Len(ws) |-> lower[ws[i]]]

\* ALIASES, for the fields of the model.
ALIASES ==
    [pr_number |-> << <<"pr", "number">>, <<"pr_number">>, <<"pr", "no">>, <<"pr">> >>,
     vendor |-> << <<"vendor">>, <<"vendor", "name">> >>,
     unit_cost |-> << <<"unit", "cost">>, <<"unit", "price">> >>,
     other |-> << <<"other">> >>]

\* row.to_dict(): the cell under each column name; of two columns with one
\* name the later one.
RowDict(cols, cells) ==
    [name \in {cols[i] : i \in 1..Len(cols)} |->
        cells[CHOOSE i \in 1..Len(cols) :
                 cols[i] = name /\ \A j \in 1..Len(cols) : cols[j] = name => j <= i]]

\* _pick(row, key): the cell under the first alias of key that is a column of
\* the row, None when no alias is.
pick(r, key) ==
    LET present == {k \in 1..Len(ALIASES[key]) : ALIASES[key][k] \in DOMAIN r}
    IN  IF present = {} THEN Null
        ELSE r[ALIASES[key][CHOOSE k \in present : \A j \in present : k <= j]]

\* A sheet of two columns and one row is uploaded.
UploadRaw ==
    /\ last.op = "none"
    /\ \E h1 \in RawHeaders, h2 \in {<<"Vendor">>, <<"x">>},
          c1 \in {Null, Txt("A")}, c2 \in {Null, Txt("B")} :
        last' = [op |-> "upload_raw", raw |-> <<h1, h2>>, cells |-> <<c1, c2>>]
    /\ UNCHANGED <<refs, ss, contracts, pos, budgets, attachments, yearly_budget, clock, imp,
                   errors, quota, writer, ybs>>

\* insert_excel_data normalises the headers and picks the row's fields.
PickFields ==
    /\ last.op = "upload_raw"
    /\ LET cols == [i \in 1..Len(last.raw) |-> _normalize_headers(last.raw[i])]
           r == RowDict(cols, last.cells)
       IN  last' = [op |-> "picked", raw |-> last.raw, cells |-> last.cells, cols |-> cols,
                    vendor |-> pick(r, "vendor"), pr_number |-> pick(r, "pr_number")]
    /\ UNCHANGED <<refs, ss, contracts, pos, budgets, attachments, yearly_budget, clock, imp,
                   errors, quota, writer, ybs>>

NextAliases ==
    \/ UploadRaw
    \/ PickFields

SpecAliases == Init /\ [][NextAliases]_vars

\* ------------------------------------------------------------------ dates
\* The text of a cell is a sequence of characters.
DigitVal ==
    [c \in {"0", "1", "2", "3", "4", "5", "6", "7", "8", "9"} |->
        CASE c = "0" -> 0 [] c = "1" -> 1 [] c = "2" -> 2 [] c = "3" -> 3
          [] c = "4" -> 4 [] c = "5" -> 5 [] c = "6" -> 6 [] c = "7" -> 7
          [] c = "8" -> 8 [] OTHER -> 9]

IsDigit(c) == c \in DOMAIN DigitVal

\* str.isdigit() on characters: not empty and digits only.
chars_isdigit(s) == s # <<>> /\ \A i \in 1..Len(s) : IsDigit(s[i])

RECURSIVE NumOf(_)
\* The number a sequence of digits writes.
NumOf(s) ==
    IF s = <<>> THEN 0
    ELSE 10 * NumOf(SubSeq(s, 1, Len(s) - 1)) + DigitVal[s[Len(s)]]

RECURSIVE DigitsOf(_)
\* str(n) of a non-negative integer.
DigitsOf(n) ==
    LET c == CHOOSE c \in DOMAIN DigitVal : DigitVal[c] = n % 10
    IN  IF n < 10 THEN <<c>> ELSE DigitsOf(n \div 10) \o <<c>>

RECURSIVE lstrip(_)
lstrip(s) == IF s # <<>> /\ Head(s) = Sp THEN lstrip(Tail(s)) ELSE s

RECURSIVE rstrip(_)
rstrip(s) ==
    IF s # <<>> /\ s[Len(s)] = Sp THEN rstrip(SubSeq(s, 1, Len(s) - 1)) ELSE s

\* str.strip() on characters.
chars_strip(s) == rstrip(lstrip(s))

RECURSIVE RemoveFirstDot(_)
\* s.replace(".", "", 1)
RemoveFirstDot(s) ==
    IF s = <<>> THEN s
    ELSE IF Head(s) = "." THEN Tail(s)
    ELSE <<Head(s)>> \o RemoveFirstDot(Tail(s))

IsLeap(y) == y % 4 = 0 /\ (y % 100 # 0 \/ y % 400 = 0)

DaysInMonth(y, m) ==
    IF m = 2 THEN (IF IsLeap(y) THEN 29 ELSE 28)
    ELSE IF m \in {4, 6, 9, 11} THEN 30 ELSE 31

ValidDate(y, m, d) == m \in 1..12 /\ d \in 1..DaysInMonth(y, m)

\* A parsed date, and the outcome of a parse that raises.
Date(y, m, d) == [t |-> "date", y |-> y, m |-> m, d |-> d]

Raised == [t |-> "raised"]

Pad2(n) == IF n < 10 THEN "0" \o ToString(n) ELSE ToString(n)

\* dt.date().isoformat() for a year of four digits.
isoformat(dt) == ToString(dt.y) \o "-" \o Pad2(dt.m) \o "-" \o Pad2(dt.d)

\* yyyy-mm-dd
IsIsoText(s) ==
    /\ Len(s) = 10
    /\ s[5] = "-" /\ s[8] = "-"
    /\ \A i \in {1, 2, 3, 4, 6, 7, 9, 10} : IsDigit(s[i])

\* nn-nn-yyyy or nn/nn/yyyy
IsDelimitedText(s) ==
    /\ Len(s) = 10
    /\ s[3] \in {"-", "/"} /\ s[6] = s[3]
    /\ \A i \in {1, 2, 4, 5, 7, 8, 9, 10} : IsDigit(s[i])

\* The day and the month are read in the same order whatever dayfirst says.
to_datetime_IgnoreDayfirst(s, dayfirst) ==
    IF IsIsoText(s) THEN
        LET y == NumOf(SubSeq(s, 1, 4))
            m == NumOf(SubSeq(s, 6, 7))
            d == NumOf(SubSeq(s, 9, 10))
        IN  IF ValidDate(y, m, d) THEN Date(y, m, d) ELSE Raised
    ELSE IF IsDelimitedText(s) THEN
        LET a == NumOf(SubSeq(s, 1, 2))
            b == NumOf(SubSeq(s, 4, 5))
            y == NumOf(SubSeq(s, 7, 10))
            swap == a > 12
            m == IF swap THEN b ELSE a
            d == IF swap THEN a ELSE b
        IN  IF ValidDate(y, m, d) THEN Date(y, m, d) ELSE Raised
    ELSE Raised

\* pd.to_datetime(s, errors="raise", dayfirst=...) on the texts of the model:
\* an ISO text is year-month-day; of a delimited text the first number is the
\* day when dayfirst is set and the second can be a month, or when the first
\* cannot be a month; digits that would be a year past 9999, and any other
\* text, raise.
to_datetime(s, dayfirst) ==
    IF IsIsoText(s) THEN
        LET y == NumOf(SubSeq(s, 1, 4))
            m == NumOf(SubSeq(s, 6, 7))
            d == NumOf(SubSeq(s, 9, 10))
        IN  IF ValidDate(y, m, d) THEN Date(y, m, d) ELSE Raised
    ELSE IF IsDelimitedText(s) THEN
        LET a == NumOf(SubSeq(s, 1, 2))
            b == NumOf(SubSeq(s, 4, 5))
            y == NumOf(SubSeq(s, 7, 10))
            swap == a > 12 \/ (b <= 12 /\ dayfirst)
            m == IF swap THEN b ELSE a
            d == IF swap THEN a ELSE b
        IN  IF ValidDate(y, m, d) THEN Date(y, m, d) ELSE Raised
    ELSE Raised

\* pd.to_datetime(num, unit="D", origin="1899-12-30"): the date num days
\* after 30 December 1899.
FromSerial(num) ==
    LET z == num + 693899
        era == z \div 146097
        doe == z - era * 146097
        yoe == (doe - doe \div 1460 + doe \div 36524 - doe \div 146096) \div 365
        doy == doe - (365 * yoe + yoe \div 4 - yoe \div 100)
        mp == (5 * doy + 2) \div 153
        d == doy - (153 * mp + 2) \div 5 + 1
        m == IF mp < 10 THEN mp + 3 ELSE mp - 9
        y == yoe + era * 400 + (IF m <= 2 THEN 1 ELSE 0)
    IN  Date(y, m, d)

\* A cell read as a date of the sheet.
Timestamp(y, m, d) == [t |-> "ts", y |-> y, m |-> m, d |-> d]

_to_date_str(v) ==
    IF IsNull(v) THEN Null
    ELSE IF v.t = "str" /\ chars_strip(v.v) = <<>> THEN Null
    ELSE IF v.t = "ts" THEN Txt(isoformat(v))
    ELSE
        LET s == IF v.t = "str" THEN chars_strip(v.v) ELSE DigitsOf(v.v)
            dayFirst == to_datetime(s, TRUE)
            monthFirst == to_datetime(s, FALSE)
            numeric == v.t = "num" \/ chars_isdigit(RemoveFirstDot(s))
            num == IF v.t = "num" THEN v.v ELSE NumOf(RemoveFirstDot(s))
        IN  IF dayFirst # Raised THEN Txt(isoformat(dayFirst))
            ELSE IF monthFirst # Raised THEN Txt(isoformat(monthFirst))
            ELSE IF numeric /\ 1 <= num /\ num <= 80000
                 THEN Txt(isoformat(FromSerial(num)))
            ELSE Null

\* nn<sep>nn<sep>yyyy as characters.
DelimitedText(a, sep, b, y) ==
    (IF a < 10 THEN <<"0">> ELSE <<>>) \o DigitsOf(a) \o <<sep>>
        \o (IF b < 10 THEN <<"0">> ELSE <<>>) \o DigitsOf(b) \o <<sep>> \o DigitsOf(y)

\* The date cells of the model: texts in both orders and with both
\* delimiters, ISO texts, texts of digits, other texts, numbers, dates, and
\* empty cells.
DateCells ==
    {Txt(DelimitedText(a, sep, b, 2024)) :
        a \in {3, 5, 13, 25, 31}, b \in {2, 3, 5, 13, 25}, sep \in {"-", "/"}}
    \cup {Txt(<<Sp>> \o DelimitedText(5, "-", 3, 2024) \o <<Sp>>)}
    \cup {Txt(<<"2", "0", "2", "4", "-", "0", "3", "-", "0", "5">>),
          Txt(<<"2", "0", "2", "4", "-", "1", "3", "-", "0", "5">>)}
    \cup {Txt(<<"4", "5", "0", "0", "0">>), Txt(<<"8", "0", "0", "0", "1">>)}
    \cup {Txt(<<"n", "/", "a">>), Txt(<<"t", "b", "d">>), Txt(<<>>), Txt(<<Sp, Sp>>)}
    \cup {Num(n) : n \in {0, 10000, 45000, 80000, 80001}}
    \cup {Timestamp(2024, 3, 5), Null}

\* A row with a date cell is read.
ReadDateCell ==
    /\ last.op = "none"
    /\ \E v \in DateCells : last' = [op |-> "date_cell", v |-> v]
    /\ UNCHANGED <<refs, ss, contracts, pos, budgets, attachments, yearly_budget, clock, imp,
                   errors, quota, writer, ybs>>

\* insert_excel_data converts the cell for the record's start or end date.
ConvertDate ==
    /\ last.op = "date_cell"
    /\ last' = [op |-> "date", v |-> last.v, out |-> _to_date_str(last.v)]
    /\ UNCHANGED <<refs, ss, contracts, pos, budgets, attachments, yearly_budget, clock, imp,
                   errors, quota, writer, ybs>>

NextDates ==
    \/ ReadDateCell
    \/ ConvertDate

SpecDates == Init /\ [][NextDates]_vars

\* ------------------------------------------------------------------ home
\* The budget of the oldest row of the year.
BudgetFor_Oldest(table, year) ==
    LET rows == {r \in table : r.year = year}
        top == {r \in rows : \A q \in rows : q.id >= r.id}
    IN  IF top = {} THEN 0 ELSE (CHOOSE r \in top : TRUE).VALUE

\* SELECT "VALUE" FROM yearly_budget WHERE year = ? ORDER BY id DESC LIMIT 1,
\* and 0.0 when there is no row.
BudgetFor(table, year) ==
    LET rows == {r \in table : r.year = year}
        top == {r \in rows : \A q \in rows : q.id <= r.id}
    IN  IF top = {} THEN 0 ELSE (CHOOSE r \in top : TRUE).VALUE

RECURSIVE SumApprovedBudget(_)
\* SUM(approved_budget) over a set of contract rows.
SumApprovedBudget(rows) ==
    IF rows = {} THEN 0
    ELSE LET c == CHOOSE c \in rows : TRUE
         IN  c.approved_budget.v + SumApprovedBudget(rows \ {c})

\* The sum over every budget year.
ConsumedFor_AllYears(table, year) ==
    SumApprovedBudget({c \in table : NotNull(c.approved_budget)})

\* SELECT COALESCE(SUM(approved_budget), 0) FROM amc_contracts WHERE budget_year = ?
ConsumedFor(table, year) ==
    SumApprovedBudget({c \in table : c.budget_year = Num(year) /\ NotNull(c.approved_budget)})

\* A ratio shown as 0.0% on a zero denominator.
Pct_ZeroOnZero(n, d) == IF d > 0 THEN Num((2000 * n + d) \div (2 * d)) ELSE Num(0)

\* A ratio as the card shows it: None, or the percentage with one decimal,
\* here in tenths of a percent, rounded to the nearest.
Pct(n, d) == IF d > 0 THEN Num((2000 * n + d) \div (2 * d)) ELSE Null

\* COUNT(*) of the join: one for each PO row of each approved contract.
WithPo_JoinRows(year) ==
    Cardinality({j \in {c \in contracts : c.year = Num(year) /\ c.approved = 1} \X pos :
                    j[2].pr_number = j[1].pr_number /\ j[2].year = j[1].year})

\* COUNT(DISTINCT c.id) of the approved contracts of the year joined to amc_pos
\* on pr_number and year.
WithPo(year) ==
    Cardinality({c \in contracts :
        /\ c.year = Num(year) /\ c.approved = 1
        /\ NotNull(c.pr_number)
        /\ \E p \in pos : p.pr_number = c.pr_number /\ p.year = c.year})

\* The Home page for a selected year: the KPI cards, the budget of the burn
\* line and the budget of the donut.
HomeView ==
    /\ \E current_year \in YbYears :
        LET budget == BudgetFor(yearly_budget, current_year)
            consumed == ConsumedFor(contracts, current_year)
            total_contracts == Cardinality({c \in contracts : c.year = Num(current_year)})
            approved_cnt == Cardinality({c \in contracts :
                                c.year = Num(current_year) /\ c.approved = 1})
            with_po == WithPo(current_year)
        IN  last' = [op |-> "home", year |-> current_year,
                     budget |-> budget, consumed |-> consumed,
                     remaining |-> budget - consumed,
                     utilization |-> Pct(consumed, budget),
                     approval_rate |-> Pct(approved_cnt, total_contracts),
                     po_coverage |-> Pct(with_po, approved_cnt),
                     budget_for_line |-> BudgetFor(yearly_budget, current_year),
                     budget2 |-> BudgetFor(yearly_budget, current_year)]
    /\ UNCHANGED <<refs, ss, contracts, pos, budgets, attachments, yearly_budget, clock, imp,
                   errors, quota, writer, ybs>>

\* The Home page beside the yearly budget page and the import of a sheet of
\* one row.
NextHome ==
    \/ ImportRow
    \/ ImportYear
    \/ \E s \in Sessions : YbSubmit(s)
    \/ \E s \in Sessions : YbInsert(s)
    \/ HomeView

SpecHome == InitRow /\ [][NextHome]_vars

\* The Home page beside imports and manual adds.
NextCoverage ==
    \/ ImportStart
    \/ ImportRow
    \/ ImportYear
    \/ AddSubmit
    \/ HomeView

SpecCoverage == Init /\ [][NextCoverage]_vars

\* One session alone on the page: each submission's insert is done before the
\* next submission starts.
NextYbSeq ==
    \/ YbSubmit(1)
    \/ YbInsert(1)
    \/ Tick

SpecYbSeq == Init /\ [][NextYbSeq]_vars

\* ============================================================ properties
ImportedUpdate == last.op = "import_year" /\ last.upsert = "ok" /\ last.old # {}

KeyRows(table, pr_number, y) == {r \in table : r.pr_number = pr_number /\ r.year = Num(y)}

\* C1: the contract table holds at most one record per (pr_number, year).
C1_UniquePerKey ==
    \A a, b \in contracts : (a.pr_number = b.pr_number /\ a.year = b.year) => a = b

\* An import of an existing (pr_number, year) has updated the one record.
C1_Witness ==
    /\ ImportedUpdate
    /\ Cardinality(KeyRows(contracts, last.pr_number, last.year)) = 1

\* C2: when the stored record is what an earlier import of the same row
\* stored, the second import leaves one record which differs from it in the
\* modified timestamp only.
C2_OnlyModifiedChanges ==
    ImportedUpdate =>
        \A o \in last.old :
            o = NewContract(o.id, [last.payload EXCEPT !.created = o.created,
                                                       !.modified = o.modified])
            => KeyRows(contracts, last.pr_number, last.year)
                 = {[o EXCEPT !.modified = last.payload.modified]}

\* C3 as stated: after an upsert on an existing key every column of the stored
\* record but its id is the one of the newly imported record (NULL where the
\* import carries no value).
C3_AllColumnsReplaced ==
    ImportedUpdate =>
        \A o \in last.old : NewContract(o.id, last.payload) \in contracts

\* C3 amended: every non-key column the import carries is the payload's, NULLs
\* included; the columns the import does not carry keep their stored value.
C3_PayloadColumnsReplaced ==
    ImportedUpdate =>
        \A o \in last.old : \E c \in contracts :
            /\ c.id = o.id
            /\ \A col \in DOMAIN c :
                c[col] = IF col \in payload_cols \ {"pr_number", "year"}
                         THEN last.payload[col] ELSE o[col]

\* A NULL of the import has replaced a stored approved budget.
C3_Witness ==
    /\ ImportedUpdate
    /\ \E o \in last.old : \E c \in contracts :
        /\ c.id = o.id
        /\ NotNull(o.approved_budget)
        /\ IsNull(last.payload.approved_budget)
        /\ IsNull(c.approved_budget)

\* C4: a failed upsert changes no contract record, is reported, and the import
\* goes on to the next year, the next row or its end exactly as after a success.
C4_FailureIsolated ==
    [][(imp.pc = "years" /\ last'.op = "import_year" /\ last'.upsert = "failed") =>
        /\ contracts' = contracts
        /\ [kind |-> "upsert_failed", pr_number |-> imp.pr_number, year |-> CurrentYear]
              \in errors'
        /\ IF imp.yi < Len(detected_years)
           THEN /\ imp'.pc = "years" /\ imp'.yi = imp.yi + 1
                /\ imp'.row = imp.row /\ imp'.rowsLeft = imp.rowsLeft
           ELSE IF imp.rowsLeft > 0
           THEN imp'.pc = "row" /\ imp'.rowsLeft = imp.rowsLeft
           ELSE imp'.pc = "idle"]_vars

\* An upsert failed after a record of the same import was committed, and the
\* import is still running.
C4_Witness ==
    /\ last.op = "import_year" /\ last.upsert = "failed"
    /\ imp.pc \in {"years", "row"}
    /\ imp.success_contracts >= 1
    /\ contracts # {}

HasPoCell(cells) == NotNull(cells.po_number) \/ NotNull(cells.po_amount)

\* C5 as stated: a processed (row, year) with a PO cell appends exactly one PO
\* row and changes no other.
C5_OnePoRowAppended ==
    [][(imp.pc = "years" /\ last'.op = "import_year" /\ HasPoCell(CurrentCells)) =>
        /\ pos \subseteq pos'
        /\ Cardinality(pos' \ pos) = 1]_vars

\* C5 amended: it appends exactly one PO row for (pr_number, year) unless the
\* PO insert fails, which is reported and appends none; no step of the import
\* changes or removes a PO row.
C5_OnePoRowUnlessFailed ==
    [][/\ (last'.op \in {"import_start", "import_row", "import_year"}) => pos \subseteq pos'
       /\ (imp.pc = "years" /\ last'.op = "import_year" /\ HasPoCell(CurrentCells)) =>
            IF last'.po = "failed"
            THEN /\ pos' = pos
                 /\ [kind |-> "po_failed", pr_number |-> imp.pr_number, year |-> CurrentYear]
                       \in errors'
            ELSE /\ Cardinality(pos' \ pos) = 1
                 /\ \A p \in pos' \ pos :
                      p.pr_number = imp.pr_number /\ p.year = Num(CurrentYear)]_vars

\* The same (pr_number, year) was imported twice with a PO cell: two PO rows.
C5_Witness ==
    /\ last.op = "import_year" /\ last.po = "ok"
    /\ Cardinality({p \in KeyRows(pos, last.pr_number, last.year) :
                       IsNull(p.ref_amc_contract)}) = 2

\* C6: a row without PR number is skipped with an error, writes no contract
\* and no PO record, and the import goes on with the next row.
C6_MissingPrSkipped ==
    [][(imp.pc = "row" /\ last'.op = "import_row" /\ IsNull(last'.pr_number)) =>
        /\ last'.skipped
        /\ [kind |-> "missing_pr", row |-> imp.i + 1] \in errors'
        /\ contracts' = contracts
        /\ pos' = pos
        /\ imp'.pc = IF imp.rowsLeft > 1 THEN "row" ELSE "idle"]_vars

\* A row without PR number was skipped and another row of the sheet is next.
C6_Witness ==
    /\ last.op = "import_row" /\ last.skipped /\ IsNull(last.pr_number)
    /\ imp.pc = "row"
    /\ [kind |-> "missing_pr", row |-> imp.i] \in errors

AnyYearCell(cells) ==
    \E col \in {"budget", "units", "po_amount", "po_number", "approved_budget"} :
        cells[col] # Null

\* C7 as stated: after the iteration for (row, Y) a contract record for (PR, Y)
\* exists if and only if one of the five cells for Y is non-null.
C7_RecordIffSignal ==
    [][(imp.pc = "years" /\ last'.op = "import_year") =>
        (KeyRows(contracts', imp.pr_number, CurrentYear) # {} <=> AnyYearCell(CurrentCells))]_vars

\* C7 amended: the upsert for (PR, Y) is attempted if and only if one of the
\* five cells is non-null; it writes the record unless it fails, which is
\* reported and writes nothing; a year without signal writes no record and no
\* PO row.
C7_UpsertIffSignal ==
    [][(imp.pc = "years" /\ last'.op = "import_year") =>
        /\ (last'.upsert # "none") <=> AnyYearCell(CurrentCells)
        /\ last'.upsert = "ok" =>
             KeyRows(contracts', imp.pr_number, CurrentYear) # {}
        /\ last'.upsert = "failed" =>
             /\ contracts' = contracts
             /\ [kind |-> "upsert_failed", pr_number |-> imp.pr_number, year |-> CurrentYear]
                   \in errors'
        /\ ~AnyYearCell(CurrentCells) =>
             contracts' = contracts /\ pos' = pos /\ errors' = errors]_vars

\* A unit count alone, with every other cell of the year empty, made the
\* year's record.
C7_Witness ==
    /\ last.op = "import_year" /\ last.upsert = "ok"
    /\ NotNull(last.cells.units)
    /\ \A col \in {"budget", "po_amount", "po_number", "approved_budget"} :
          IsNull(last.cells[col])
    /\ KeyRows(contracts, last.pr_number, last.year) # {}

\* C8: a record last written by an import is approved exactly when its
\* approved budget is non-null, and its budget year is its year then and NULL
\* otherwise.
C8_ApprovedIffApprovedBudget ==
    \A c \in contracts :
        writer[c.id] = "import" =>
            /\ (c.approved = 1) <=> NotNull(c.approved_budget)
            /\ NotNull(c.approved_budget) => c.budget_year = c.year
            /\ IsNull(c.approved_budget) => IsNull(c.budget_year)

\* An approved-budget cell that is no number left the record unapproved.
C8_Witness ==
    /\ last.op = "import_year" /\ last.upsert = "ok"
    /\ last.cells.approved_budget = Txt("n/a")
    /\ \E c \in KeyRows(contracts, last.pr_number, last.year) :
        c.approved = 0 /\ IsNull(c.approved_budget) /\ IsNull(c.budget_year)

\* C9: a delete removes the one contract row and leaves every PO row and every
\* attachment row as it was.
C9_DeleteOnlyContract ==
    [][last'.op = "delete" =>
        /\ contracts' = {r \in contracts : r.id # last'.id}
        /\ Cardinality(contracts) = Cardinality(contracts') + 1
        /\ pos' = pos
        /\ attachments' = attachments]_vars

\* A contract with a PO row and an attachment was deleted; both rows remain.
C9_Witness ==
    /\ last.op = "delete"
    /\ \A r \in contracts : r.id # last.id
    /\ \E p \in pos : p.ref_amc_contract = Num(last.id)
    /\ \E a \in attachments : a.ref_id = last.id

YearRows(table, year) == {r \in table : r.year = year}

\* C10: the insert of a session whose checks passed adds its row whatever rows
\* the table holds by then.
C10_InsertAfterCheckUnconditional ==
    [][\A s \in Sessions :
        (ybs[s].pc = "insert" /\ ybs'[s].pc = "form") =>
            Cardinality(YearRows(yearly_budget', ybs[s].year))
              = Cardinality(YearRows(yearly_budget, ybs[s].year)) + 1]_vars

\* Two yearly_budget rows for the same year.
C10_Witness ==
    \E a, b \in yearly_budget : a.id # b.id /\ a.year = b.year

\* C11: in one session a submission for a year that has a row, or with an
\* amount not above 0, is rejected with an error and changes no row, now or
\* in the step after it; so the table holds at most one row per year and only
\* amounts above 0.
C11_SequentialSubmissions ==
    /\ [](/\ \A a, b \in yearly_budget : a.year = b.year => a = b
          /\ \A r \in yearly_budget : r.VALUE > 0)
    /\ [][last'.op = "yb_submit" =>
            /\ yearly_budget' = yearly_budget
            /\ (YearRows(yearly_budget, last'.year) # {} \/ last'.amount <= 0) =>
                 /\ last'.errors # {}
                 /\ ybs'[last'.s].pc = "form"]_vars

\* A submission for the year of the one stored row was rejected.
C11_Witness ==
    /\ last.op = "yb_submit"
    /\ "year_exists" \in last.errors
    /\ YearRows(yearly_budget, last.year) # {}
    /\ Cardinality(yearly_budget) = 1
    /\ ybs[1].pc = "form"

\* C12: a submission of the add form or of the edit form whose validation
\* yields an error writes or changes no contract, budget, PO or attachment row.
C12_InvalidFormWritesNothing ==
    [][(last'.op \in {"add", "edit"} /\ last'.errors # {}) =>
        /\ contracts' = contracts
        /\ budgets' = budgets
        /\ pos' = pos
        /\ attachments' = attachments]_vars

\* An edit with Approved checked and no PO number was rejected, after an add
\* was rejected too: the one stored record is the import's.
C12_Witness ==
    /\ last.op = "edit" /\ "po_number" \in last.errors
    /\ quota.adds = 1
    /\ contracts # {}
    /\ \A c \in contracts : writer[c.id] = "import"
    /\ budgets = {} /\ attachments = {}

HomeYearContracts == {c \in contracts : c.year = Num(last.year)}

HomeApproved == {c \in HomeYearContracts : c.approved = 1}

\* v is n / d as a percentage in tenths, to the nearest tenth.
IsPct(v, n, d) == 2 * d * v - d <= 2000 * n /\ 2000 * n < 2 * d * v + d

\* C13: with a yearly budget target above 0 for the selected year Y, utilization
\* is consumed / budget x 100, consumed being the sum of approved_budget over
\* the contracts with budget_year = Y; 40,000 of 100,000 gives 40.0.
C13_Utilization ==
    (last.op = "home" /\ last.budget > 0) =>
        /\ last.consumed = SumApprovedBudget({c \in contracts :
                                /\ NotNull(c.approved_budget)
                                /\ c.budget_year = Num(last.year)})
        /\ NotNull(last.utilization)
        /\ IsPct(last.utilization.v, last.consumed, last.budget)
        /\ (last.consumed = 40000 /\ last.budget = 100000) => last.utilization = Num(400)

\* 40,000 consumed of a target of 100,000 shows 40.0, with an approved budget
\* stored for the other year too.
C13_Witness ==
    /\ last.op = "home"
    /\ last.consumed = 40000 /\ last.budget = 100000
    /\ last.utilization = Num(400)
    /\ \E c \in contracts : NotNull(c.approved_budget) /\ c.budget_year # Num(last.year)

\* C14: utilization is None exactly when the year has no yearly budget row
\* with a positive value, the approval rate exactly when the year has no
\* contract, the PO coverage exactly when the year has no approved contract;
\* None is shown as N/A and is not the number 0.
C14_NotApplicable ==
    last.op = "home" =>
        /\ last.utilization = Null
             <=> ~\E r \in yearly_budget : r.year = last.year /\ r.VALUE > 0
        /\ last.approval_rate = Null <=> HomeYearContracts = {}
        /\ last.po_coverage = Null <=> HomeApproved = {}

\* The year has contracts, none approved, and no target, while the other year
\* has a target: a rate of 0.0, and N/A twice.
C14_Witness ==
    /\ last.op = "home"
    /\ last.utilization = Null /\ last.po_coverage = Null
    /\ last.approval_rate = Num(0)
    /\ yearly_budget # {}

\* C15: with rows for the selected year in yearly_budget, the KPI cards, the
\* burn line and the donut use the value of the row with the highest id.
C15_LatestBudgetRow ==
    last.op = "home" =>
        \A r \in YearRows(yearly_budget, last.year) :
            (\A q \in YearRows(yearly_budget, last.year) : q.id <= r.id) =>
                /\ last.budget = r.VALUE
                /\ last.budget_for_line = r.VALUE
                /\ last.budget2 = r.VALUE

\* Two rows of the year with different values: the figures show the later one.
C15_Witness ==
    /\ last.op = "home"
    /\ \E r, q \in YearRows(yearly_budget, last.year) :
        /\ q.id < r.id /\ q.VALUE # r.VALUE
        /\ last.budget = r.VALUE /\ last.budget2 = r.VALUE

\* C16: with an approved contract for the selected year, PO coverage is the
\* number of approved contracts of the year with a PO row of their pr_number
\* and year over the number of approved contracts of the year, times 100, and
\* lies between 0 and 100.
C16_PoCoverage ==
    (last.op = "home" /\ HomeApproved # {}) =>
        /\ NotNull(last.po_coverage)
        /\ last.po_coverage.v >= 0 /\ last.po_coverage.v <= 1000
        /\ IsPct(last.po_coverage.v,
                 Cardinality({c \in HomeApproved :
                     KeyRows(pos, c.pr_number, last.year) # {}}),
                 Cardinality(HomeApproved))

\* An approved contract with two PO rows of its pr_number and year: 100.0.
C16_Witness ==
    /\ last.op = "home"
    /\ last.po_coverage = Num(1000)
    /\ \E c \in HomeApproved : Cardinality(KeyRows(pos, c.pr_number, last.year)) = 2

\* The year's token is the first word of the header, or the last before the
\* end or before a parenthesis.
CarriesYear(h, y) ==
    \/ IsYearToken(h[1], y)
    \/ \E k \in 1..Len(h) : IsYearToken(h[k], y) /\ ParenTail(h, k)

\* C17: a header resolved as a per-year field of year Y carries the token Y at
\* the start or at the end, and is resolved as a field of no other year.
C17_ResolvedForItsYear ==
    last.op = "columns" =>
        \A y \in last.years : \A field \in PerYearFields :
            LET h == last.per_year[y][field]
            IN  h # NoCol =>
                  /\ CarriesYear(h, y)
                  /\ \A y2 \in last.years \ {y} : \A f2 \in PerYearFields :
                        last.per_year[y2][f2] # h

\* C18: the record written for a year whose budget cell is the text "15,000"
\* has approval_amount 15000.0, and so has the record of a year with an empty
\* budget cell, 10 units and a unit cost of 1500.
C18_ApprovalAmount15000 ==
    (last.op = "import_year" /\ last.upsert = "ok" /\ imp.pc = "years") =>
        \A c \in KeyRows(contracts, last.pr_number, last.year) :
            /\ last.cells.budget = Txt("15,000") => c.approval_amount = Num(15000)
            /\ (last.cells.budget = Null /\ last.cells.units = Num(10)
                  /\ imp.row.unit_cost = Num(1500)) => c.approval_amount = Num(15000)

VendorSpellings == {<<"vendor">>, <<"vendor", "name">>}

\* The headers are those typed, in lower case and without their whitespace.
NormalisedAsTyped ==
    \A i \in 1..Len(last.raw) :
        /\ last.cols[i] \in Seq({"vendor", "name", "x"})
        /\ Len(last.cols[i]) = Cardinality({k \in 1..Len(last.raw[i]) : last.raw[i][k] # Sp})

\* C19 as stated: the vendor of the row is the cell of every column whose
\* normalised header is a spelling of vendor, and the PR number, none of whose
\* spellings is a header, is null.
C19_ValueFromAliasColumn ==
    last.op = "picked" =>
        /\ \A i \in 1..Len(last.cols) :
              last.cols[i] \in VendorSpellings => last.vendor = last.cells[i]
        /\ last.pr_number = Null

\* C19 amended: the headers are matched in lower case with their whitespace
\* collapsed; the vendor is the cell of the column named by the first spelling
\* of the alias list that is a header, the last such column if several have
\* that name, and null if no spelling is a header, as the PR number is here.
C19_ValueFromFirstAlias ==
    last.op = "picked" =>
        /\ NormalisedAsTyped
        /\ LET named(sp) == {i \in 1..Len(last.cols) : last.cols[i] = sp}
               first == IF named(<<"vendor">>) # {} THEN named(<<"vendor">>)
                        ELSE named(<<"vendor", "name">>)
           IN  IF first = {} THEN last.vendor = Null
               ELSE \E i \in first : /\ \A j \in first : j <= i
                                     /\ last.vendor = last.cells[i]
        /\ last.pr_number = Null

\* "VENDOR  Name" and "Vendor" are both columns: the vendor is the cell under
\* "Vendor".
C19_Witness ==
    /\ last.op = "picked"
    /\ last.raw = << <<"VENDOR", Sp, Sp, "Name">>, <<"Vendor">> >>
    /\ last.cells = <<Txt("A"), Txt("B")>>
    /\ last.vendor = Txt("B")

\* The result of the conversion of cell v is out.
Converts(v, out) == last.v = v => last.out = out

\* C20: a date cell converts to an ISO date or to null and nothing is raised;
\* "05-03-2024" is 5 March 2024 and "25-03-2024" is 25 March 2024 (day
\* first), "03-25-2024" is 25 March 2024 (month first), the numbers 45000,
\* 10000 and 80000 are the days after 30 December 1899, a number outside
\* 1..80000 and a text that is no date are null.
C20_DateConversion ==
    last.op = "date" =>
        /\ last.out.t \in {"str", "null"}
        /\ Converts(Txt(DelimitedText(5, "-", 3, 2024)), Txt("2024-03-05"))
        /\ Converts(Txt(DelimitedText(5, "/", 3, 2024)), Txt("2024-03-05"))
        /\ Converts(Txt(DelimitedText(25, "-", 3, 2024)), Txt("2024-03-25"))
        /\ Converts(Txt(DelimitedText(3, "-", 25, 2024)), Txt("2024-03-25"))
        /\ Converts(Txt(DelimitedText(13, "-", 13, 2024)), Null)
        /\ Converts(Txt(DelimitedText(31, "-", 2, 2024)), Null)
        /\ Converts(Num(45000), Txt("2023-03-15"))
        /\ Converts(Txt(<<"4", "5", "0", "0", "0">>), Txt("2023-03-15"))
        /\ Converts(Num(10000), Txt("1927-05-18"))
        /\ Converts(Num(80000), Txt("2119-01-11"))
        /\ Converts(Num(80001), Null)
        /\ Converts(Num(0), Null)
        /\ Converts(Txt(<<"n", "/", "a">>), Null)
        /\ Converts(Null, Null)

\* The text "05-03-2024" was converted to 2024-03-05.
C20_Witness ==
    /\ last.op = "date"
    /\ last.v = Txt(<<"0", "5", "-", "0", "3", "-", "2", "0", "2", "4">>)
    /\ last.out = Txt("2024-03-05")

\* The department the row names: a department whose name is the row's
\* department value but for case and surrounding blanks.
NamedDepartments(r) ==
    {d \in refs.departments :
        \/ d.name_en = "IT" /\ r.department \in {Txt("it"), Txt(" IT ")}
        \/ d.name_en = "HR" /\ r.department = Txt("HR")}

\* The departments of the row's directorate.
DirectorateDepartments(r) ==
    {d \in refs.departments : d.directorate = "Tech" /\ r.directorate = Txt("TECH")}

\* C21: the record an import step writes carries the id of a department of
\* the row's name; of a department of the row's directorate only if no
\* department has the name; and null if neither exists. The step changes no
\* reference table.
C21_DepartmentResolved ==
    [][/\ refs' = refs
       /\ (imp.pc = "years" /\ last'.op = "import_year" /\ last'.upsert = "ok") =>
            \E c \in contracts' :
                /\ c.pr_number = imp.pr_number /\ c.year = Num(CurrentYear)
                /\ IF NamedDepartments(imp.row) # {}
                   THEN \E d \in NamedDepartments(imp.row) : c.ref_departments = Num(d.id)
                   ELSE IF DirectorateDepartments(imp.row) # {}
                   THEN \E d \in DirectorateDepartments(imp.row) : c.ref_departments = Num(d.id)
                   ELSE IsNull(c.ref_departments)]_vars

\* A row named the department IT in another case and a directorate of other
\* departments; its record carries the id of IT.
C21_Witness ==
    /\ last.op = "import_year" /\ last.upsert = "ok"
    /\ \E d \in refs.departments : d.name_en = "IT"
    /\ \E d \in refs.departments : d.directorate = "Tech"
    /\ \E c \in contracts : c.ref_departments = Num(1) /\ c.pr_number = last.pr_number
    /\ imp.pc = "years" /\ imp.row.department = Txt("it") /\ imp.row.directorate = Txt("TECH")

\* The PO rows of a contract id and a year.
PoRowsOf(table, id, year) ==
    {p \in table : p.ref_amc_contract = Num(id) /\ p.year = Num(year)}

\* C22: a save with Approved checked raises the version of the contract's
\* latest PO row of the year by one, or inserts one row of version 1 when
\* the contract has none; the number of the contract's PO rows of the year
\* grows only from zero to one.
C22_ApprovedSaveUpserts ==
    [][(last'.op = "edit" /\ last'.outcome = "saved" /\ last'.approved) =>
        LET before == PoRowsOf(pos, last'.id, last'.year)
            after == PoRowsOf(pos', last'.id, last'.year)
        IN  IF before = {}
            THEN /\ Cardinality(after) = 1
                 /\ \A p \in after : p.version = 1
                 /\ pos' \ after = pos
            ELSE /\ Cardinality(after) = Cardinality(before)
                 /\ \E p \in before : \E q \in after :
                       /\ \A o \in before : o.id <= p.id
                       /\ q.id = p.id /\ q.version = p.version + 1
                       /\ pos' \ {q} = pos \ {p}]_vars

\* The second approved save of a record: its PO row is at version 2 or more
\* and is the only one.
C22_Witness ==
    /\ last.op = "edit" /\ last.outcome = "saved" /\ last.approved
    /\ quota.saves = 2
    /\ Cardinality(PoRowsOf(pos, last.id, last.year)) = 1
    /\ \E p \in PoRowsOf(pos, last.id, last.year) : p.version >= 2

\* C23: every PO row the import appended has a contract record of its
\* (pr_number, year).
C23_ImportedPoHasContract ==
    \A p \in pos :
        IsNull(p.ref_amc_contract) =>
            \E c \in contracts : c.pr_number = p.pr_number /\ c.year = p.year

\* C24: for every year of the headers, the budget column and the approved
\* budget column are different headers.
C24_BudgetNotApprovedBudget ==
    last.op = "columns" =>
        \A y \in last.years :
            last.per_year[y]["budget"] # NoCol =>
                last.per_year[y]["budget"] # last.per_year[y]["approved_budget"]

\* The PO rows the import appended for the (pr_number, year) of contract c.
ImportedPoRows(c) ==
    {p \in pos : IsNull(p.ref_amc_contract) /\ p.pr_number = c.pr_number /\ p.year = c.year}

\* C27: an approved save of a contract for which the import appended a PO row
\* adds no PO row.
C27_EditUpdatesImportedPo ==
    [][(last'.op = "edit" /\ last'.outcome = "saved" /\ last'.approved) =>
        \A c \in contracts :
            (c.id = last'.id /\ ImportedPoRows(c) # {}) =>
                Cardinality(pos') = Cardinality(pos)]_vars

\* C29: every contract whose approved budget counts towards the consumed
\* amount of a year is approved.
C29_ConsumedOnlyApproved ==
    \A c \in contracts :
        (NotNull(c.budget_year) /\ NotNull(c.approved_budget)) => c.approved = 1

\* No two rows of the table have one (pr_number, year).
UniqueKeys(table) ==
    \A c1 \in table : \A c2 \in table :
        (c1.pr_number = c2.pr_number /\ c1.year = c2.year) => c1.id = c2.id

\* The records other than id that have the PR number and the year of the form
\* of the edit just made.
OthersWithKey(table, e) ==
    {c \in table : /\ c.id # e.id
                   /\ str(c.pr_number) = Txt(e.pr_number)
                   /\ c.year = Num(e.year)}

Put(state, key, value) ==
    [k \in DOMAIN state \cup {key} |-> IF k = key THEN value ELSE state[k]]

\* if key not in st.session_state: st.session_state[key] = value
setdefault(state, key, value) ==
    IF key \in DOMAIN state THEN state ELSE Put(state, key, value)

\* ------------------------------------------------------------------ record list
PAGE_SIZE == 15

\* Values of a filter, as sequences of characters.
FilterChoices == {<<>>, <<"a">>}

\* Texts that can also be the separator of the signature.
FilterTexts == FilterChoices \cup {<<"|">>}

\* The values tried for filter k; the year and vendor texts, adjacent in the
\* signature, can hold the separator.
FilterValues(k) == IF k \in {3, 4} THEN FilterTexts ELSE FilterChoices

\* "|".join(parts)
RECURSIVE join(_)
join(parts) ==
    IF Len(parts) = 0 THEN <<>>
    ELSE IF Len(parts) = 1 THEN parts[1]
    ELSE parts[1] \o <<"|">> \o join(Tail(parts))

\* A signature that leaves out the filters after the first.
filter_sig_FirstOnly(filters) == filters[1]

\* filter_sig: the filters joined by "|".
filter_sig(filters) == join(filters)

\* total_pages = max(1, (total_rows + PAGE_SIZE - 1) // PAGE_SIZE)
total_pages(total_rows) ==
    LET n == (total_rows + PAGE_SIZE - 1) \div PAGE_SIZE
    IN  IF n < 1 THEN 1 ELSE n

\* cur_page = max(1, min(list_page, total_pages))
clamp(list_page, pages) ==
    LET m == IF list_page < pages THEN list_page ELSE pages
    IN  IF m < 1 THEN 1 ELSE m

\* The pagination of one run of the list over total_rows filtered records:
\* the defaults, the reset on a changed signature, and the clamped page.
paginate(state, filters, total_rows) ==
    LET sig == filter_sig(filters)
        s1 == setdefault(state, "list_page", 1)
        s2 == setdefault(s1, "list_sig", sig)
        s3 == IF s2.list_sig # sig
              THEN Put(Put(s2, "list_sig", sig), "list_page", 1)
              ELSE s2
    IN  Put(s3, "list_page", clamp(s3.list_page, total_pages(total_rows)))

\* page_df = work_df.iloc[start_idx:end_idx]: the positions of the filtered
\* records that page cur_page shows, counted from 1.
page_df(cur_page, total_rows) ==
    LET start_idx == (cur_page - 1) * PAGE_SIZE
        end_idx == start_idx + PAGE_SIZE
    IN  {i \in 1..total_rows : start_idx < i /\ i <= end_idx}

\* Numbers of filtered records around the page boundaries.
ListSizes ==
    {n \in 0..MaxListRows : n % PAGE_SIZE \in {0, 1, PAGE_SIZE - 1}}

\* What a run of the list leaves in `last`.
Rendered(op, before, state, total_rows) ==
    [op |-> op, total_rows |-> total_rows, total_pages |-> total_pages(total_rows),
     shown |-> IF "list_page" \in DOMAIN before THEN before.list_page ELSE 0,
     cur_page |-> state.list_page]

\* The list is opened in a new session.
InitList ==
    /\ InitDb
    /\ refs = NoRefs
    /\ imp = ImpIdle

OpenList ==
    /\ ss.page = "none"
    /\ \E n \in ListSizes :
        LET state == paginate(<<>>, NoFilters, n)
        IN  /\ ss' = [NoSession EXCEPT !.page = "list", !.state = state]
            /\ last' = Rendered("open_list", <<>>, state, n)
    /\ UNCHANGED <<refs, contracts, pos, budgets, attachments, yearly_budget, clock, imp,
                   errors, quota, writer, ybs>>

\* The user changes one filter, and the list runs again; the table may have
\* changed meanwhile.
ChangeFilter ==
    /\ ss.page = "list"
    /\ \E k \in 1..7 : \E v \in FilterValues(k) \ {ss.filters[k]} : \E n \in ListSizes :
        LET filters == [ss.filters EXCEPT ![k] = v]
            state == paginate(ss.state, filters, n)
        IN  /\ ss' = [ss EXCEPT !.filters = filters, !.state = state]
            /\ last' = Rendered("filter", ss.state, state, n)
    /\ UNCHANGED <<refs, contracts, pos, budgets, attachments, yearly_budget, clock, imp,
                   errors, quota, writer, ybs>>

\* The list runs again with the filters as they are, over a table that other
\* sessions may have changed.
Rerun ==
    /\ ss.page = "list"
    /\ \E n \in ListSizes :
        LET state == paginate(ss.state, ss.filters, n)
        IN  /\ ss' = [ss EXCEPT !.state = state]
            /\ last' = Rendered("rerun", ss.state, state, n)
    /\ UNCHANGED <<refs, contracts, pos, budgets, attachments, yearly_budget, clock, imp,
                   errors, quota, writer, ybs>>

\* Prev or Next, enabled on the page shown: the run of the click sets
\* list_page from its own cur_page, and st.rerun() runs the list once more.
Turn(op, by, disabled) ==
    /\ ss.page = "list"
    /\ ~disabled
    /\ LET n == last.total_rows
           run == paginate(ss.state, ss.filters, n)
           clicked == Put(run, "list_page", run.list_page + by)
           state == paginate(clicked, ss.filters, n)
       IN  /\ ss' = [ss EXCEPT !.state = state]
           /\ last' = Rendered(op, ss.state, state, n)
    /\ UNCHANGED <<refs, contracts, pos, budgets, attachments, yearly_budget, clock, imp,
                   errors, quota, writer, ybs>>

\* disabled=(cur_page <= 1)
PrevDisabled == last.cur_page <= 1

\* disabled=(cur_page >= total_pages)
NextDisabled == last.cur_page >= last.total_pages

ClickPrev == Turn("prev", -1, PrevDisabled)

ClickNext == Turn("next", 1, NextDisabled)

NextList ==
    \/ OpenList
    \/ ChangeFilter
    \/ Rerun
    \/ ClickPrev
    \/ ClickNext

SpecList == InitList /\ [][NextList]_vars

\* C30: after every run of the list, list_page lies in 1..total_pages with
\* total_pages = max(1, ceil(rows / 15)); a changed filter puts the list on
\* page 1; Prev and Next move by exactly one page and are disabled on the
\* first and the last page; the pages show every filtered record exactly once.
OnList == ss.page = "list"

PagesPartition(total_rows) ==
    /\ \A i \in 1..total_rows :
        \E k \in 1..total_pages(total_rows) :
            /\ i \in page_df(k, total_rows)
            /\ \A j \in 1..total_pages(total_rows) : i \in page_df(j, total_rows) => j = k
    /\ \A k \in 1..total_pages(total_rows) : page_df(k, total_rows) \subseteq 1..total_rows

CeilPages(total_rows) ==
    CHOOSE k \in 0..(MaxListRows + 1) :
        k * PAGE_SIZE >= total_rows /\ (k = 0 \/ (k - 1) * PAGE_SIZE < total_rows)

C30_ListPagination ==
    /\ [](OnList =>
            /\ ss.state.list_page \in 1..last.total_pages
            /\ last.total_pages = (IF CeilPages(last.total_rows) < 1 THEN 1
                                   ELSE CeilPages(last.total_rows))
            /\ PagesPartition(last.total_rows)
            /\ (last.cur_page = 1 => PrevDisabled)
            /\ (last.cur_page = last.total_pages => NextDisabled))
    /\ [][/\ (last'.op = "filter" => ss'.state.list_page = 1)
          /\ (last'.op = "prev" => ss'.state.list_page = ss.state.list_page - 1)
          /\ (last'.op = "next" => ss'.state.list_page = ss.state.list_page + 1)]_vars

C30_Witness ==
    /\ OnList
    /\ last.op = "filter"
    /\ last.shown = 3
    /\ last.total_pages = 3
    /\ ss.state.list_page = 1
    /\ ss.filters[4] = <<"|">>

\* ------------------------------------------------------------------ record pages
\* A session that a link keeps, with every key of the pages run before.
NewSession_Kept(state) == state

\* The Edit and Add New Entry links of the list are plain anchors: the
\* browser loads the app anew, and the run starts with an empty
\* st.session_state.
NewSession(state) == <<>>

\* A page that stages an unchecked Approved flag and no PO for any record.
render_edit_page_Unloaded(state, record_id, table, po_table) ==
    Put(Put(Put(Put(Put(Put(state, "confirm_delete", FALSE), "delete_complete", FALSE),
                    "approved_flag", FALSE), "po_number", ""), "po_amount", 0),
        "po_loaded_once", TRUE)

\* The first lines of render_edit_page on record_id: the defaults of the two
\* delete flags and, when the record is found, of the staged Approved flag
\* and PO values.
render_edit_page(state, record_id, table, po_table) ==
    LET s1 == setdefault(state, "confirm_delete", FALSE)
        s2 == setdefault(s1, "delete_complete", FALSE)
        found == {c \in table : c.id = record_id}
    IN  IF s2.delete_complete \/ found = {}
        THEN s2
        ELSE LET row == CHOOSE c \in found : TRUE
                 s3 == setdefault(s2, "approved_flag", row.approved = 1)
                 latest == LatestPo(po_table, record_id, row.year)
                 po_number == IF latest = {} THEN ""
                              ELSE WidgetText(str((CHOOSE q \in latest : TRUE).po_number))
                 po_amount == IF latest = {} THEN 0
                              ELSE WidgetNumber((CHOOSE q \in latest : TRUE).po_amount)
             IN  IF "po_loaded_once" \in DOMAIN s3
                 THEN s3
                 ELSE Put(Put(Put(s3, "po_number", po_number), "po_amount", po_amount),
                          "po_loaded_once", TRUE)

\* The record of the edit page, when the page shows its form.
Shown ==
    IF ss.page = "edit" /\ ~ss.state.delete_complete
    THEN {c \in contracts : c.id = ss.id}
    ELSE {}

\* The warning "Are you sure you want to delete this record?" is on the page.
PromptShown == Shown # {} /\ ss.state.confirm_delete

\* go_monitor_page: the list runs in the same session.
go_monitor_page(state, table) ==
    [page |-> "list", id |-> 0, filters |-> ss.filters,
     state |-> paginate(state, ss.filters, Cardinality(table))]

\* The Edit link of a record of the list, or its address typed.
OpenEdit ==
    /\ imp.pc = "idle"
    /\ quota.opens < MaxOpens
    /\ \E c \in contracts :
        /\ ss' = [page |-> "edit", id |-> c.id, filters |-> NoFilters,
                  state |-> render_edit_page(NewSession(ss.state), c.id, contracts, pos)]
        /\ last' = [op |-> "open_edit", id |-> c.id]
    /\ quota' = [quota EXCEPT !.opens = @ + 1]
    /\ UNCHANGED <<refs, contracts, pos, budgets, attachments, yearly_budget, clock, imp,
                   errors, writer, ybs>>

\* The Approved checkbox of the edit page.
ToggleApproved ==
    /\ Shown # {}
    /\ ss' = [ss EXCEPT !.state = Put(@, "approved_flag", ~@.approved_flag)]
    /\ last' = [op |-> "toggle", id |-> ss.id]
    /\ UNCHANGED <<refs, contracts, pos, budgets, attachments, yearly_budget, clock, imp,
                   errors, quota, writer, ybs>>

\* The PO inputs of the edit page, shown while Approved is checked.
TypePo ==
    /\ Shown # {}
    /\ ss.state.approved_flag
    /\ \E po_number \in {"", "8"} : \E po_amount \in {0, 60} :
        /\ <<po_number, po_amount>> # <<ss.state.po_number, ss.state.po_amount>>
        /\ ss' = [ss EXCEPT !.state = Put(Put(@, "po_number", po_number),
                                          "po_amount", po_amount)]
    /\ last' = [op |-> "type_po", id |-> ss.id]
    /\ UNCHANGED <<refs, contracts, pos, budgets, attachments, yearly_budget, clock, imp,
                   errors, quota, writer, ybs>>

\* The form of Save Changes with the staged Approved flag and PO values and
\* the other fields as the page shows them.
StagedForm(c) ==
    [pr_number |-> WidgetText(str(c.pr_number)), year |-> WidgetNumber(c.year),
     approval_amount |-> WidgetNumber(c.approval_amount),
     start_date |-> 1, end_date |-> 2,
     approved_flag |-> ss.state.approved_flag,
     po_number |-> ss.state.po_number, po_amount |-> ss.state.po_amount,
     nfiles |-> 0]

\* Save Changes on the page of the session: a rejected form stays on the
\* page, a saved one returns to the list.
SaveChanges ==
    /\ imp.pc = "idle"
    /\ quota.saves < MaxSaves
    /\ \E c \in Shown :
        LET f == StagedForm(c)
            errs == EditErrors(f)
            fails == DropdownFails \/ UniqueViolation(c, f)
            saved == ~Rejected(errs) /\ ~fails
            table == IF saved
                     THEN (contracts \ {c}) \cup {update_record(c, f, clock)}
                     ELSE contracts
        IN  /\ contracts' = table
            /\ pos' = IF saved /\ f.approved_flag
                      THEN upsert_amc_pos(pos, c.id, Num(f.year), f.approval_amount,
                                          Txt(f.pr_number), strip(f.po_number), f.po_amount)
                      ELSE pos
            /\ writer' = IF saved THEN Stamp(writer, {c.id}, "edit") ELSE writer
            /\ ss' = IF saved THEN go_monitor_page(ss.state, table) ELSE ss
            /\ last' = [op |-> "edit", id |-> c.id, errors |-> errs,
                        pr_number |-> f.pr_number, year |-> f.year,
                        approved |-> f.approved_flag,
                        outcome |-> IF errs # {} THEN "rejected"
                                    ELSE IF fails THEN "failed" ELSE "saved"]
    /\ quota' = [quota EXCEPT !.saves = @ + 1]
    /\ errors' = {}
    /\ UNCHANGED <<refs, attachments, budgets, yearly_budget, clock, imp, ybs>>

\* Cancel of the edit form.
CancelEdit ==
    /\ Shown # {}
    /\ ss' = go_monitor_page(ss.state, contracts)
    /\ last' = [op |-> "cancel", id |-> ss.id]
    /\ UNCHANGED <<refs, contracts, pos, budgets, attachments, yearly_budget, clock, imp,
                   errors, quota, writer, ybs>>

\* Delete Record.
ClickDelete ==
    /\ Shown # {}
    /\ ss' = [ss EXCEPT !.state = Put(@, "confirm_delete", TRUE)]
    /\ last' = [op |-> "click_delete", id |-> ss.id]
    /\ UNCHANGED <<refs, contracts, pos, budgets, attachments, yearly_budget, clock, imp,
                   errors, quota, writer, ybs>>

\* "Yes, Delete it" under the warning.
ConfirmYes ==
    /\ imp.pc = "idle"
    /\ PromptShown
    /\ LET db == delete_record(ss.id)
       IN  /\ contracts' = db.contracts
           /\ pos' = db.pos
           /\ budgets' = db.budgets
           /\ attachments' = db.attachments
    /\ writer' = [id \in DOMAIN writer \ {ss.id} |-> writer[id]]
    /\ ss' = [ss EXCEPT !.state = Put(@, "delete_complete", TRUE)]
    /\ last' = [op |-> "delete", id |-> ss.id, confirm_delete |-> ss.state.confirm_delete]
    /\ errors' = {}
    /\ UNCHANGED <<refs, yearly_budget, clock, imp, quota, ybs>>

\* "No, Cancel" under the warning.
ConfirmNo ==
    /\ PromptShown
    /\ ss' = [ss EXCEPT !.state = Put(@, "confirm_delete", FALSE)]
    /\ last' = [op |-> "keep", id |-> ss.id]
    /\ UNCHANGED <<refs, contracts, pos, budgets, attachments, yearly_budget, clock, imp,
                   errors, quota, writer, ybs>>

\* "Back to Monitor" after a deletion.
BackToMonitor ==
    /\ ss.page = "edit"
    /\ ss.state.delete_complete
    /\ ss' = go_monitor_page(Put(ss.state, "delete_complete", FALSE), contracts)
    /\ last' = [op |-> "back", id |-> ss.id]
    /\ UNCHANGED <<refs, contracts, pos, budgets, attachments, yearly_budget, clock, imp,
                   errors, quota, writer, ybs>>

\* "Go to Home" after a deletion.
GoHome ==
    /\ ss.page = "edit"
    /\ ss.state.delete_complete
    /\ ss' = [ss EXCEPT !.page = "home", !.id = 0,
                        !.state = Put(@, "delete_complete", FALSE)]
    /\ last' = [op |-> "home", id |-> ss.id]
    /\ UNCHANGED <<refs, contracts, pos, budgets, attachments, yearly_budget, clock, imp,
                   errors, quota, writer, ybs>>

\* The defaults of the add page for the keys it shares with the edit page.
add_new_defaults(state) ==
    setdefault(setdefault(setdefault(state, "approved_flag", FALSE), "po_number", ""),
               "po_amount", 0)

\* The Add New Entry link of the list.
OpenAdd ==
    /\ quota.opens < MaxOpens
    /\ ss' = [page |-> "add", id |-> 0, filters |-> NoFilters,
              state |-> add_new_defaults(NewSession(ss.state))]
    /\ last' = [op |-> "open_add"]
    /\ quota' = [quota EXCEPT !.opens = @ + 1]
    /\ UNCHANGED <<refs, contracts, pos, budgets, attachments, yearly_budget, clock, imp,
                   errors, writer, ybs>>

\* Approved checked on the add page, with a PO number and amount.
AddStage ==
    /\ ss.page = "add"
    /\ ~ss.state.approved_flag
    /\ ss' = [ss EXCEPT !.state = Put(Put(Put(@, "approved_flag", TRUE), "po_number", "9"),
                                      "po_amount", 70)]
    /\ last' = [op |-> "add_stage"]
    /\ UNCHANGED <<refs, contracts, pos, budgets, attachments, yearly_budget, clock, imp,
                   errors, quota, writer, ybs>>

\* Cancel on the add page.
AddCancel ==
    /\ ss.page = "add"
    /\ ss' = go_monitor_page(ss.state, contracts)
    /\ last' = [op |-> "add_cancel"]
    /\ UNCHANGED <<refs, contracts, pos, budgets, attachments, yearly_budget, clock, imp,
                   errors, quota, writer, ybs>>

NextSession ==
    \/ ImportRow
    \/ ImportYear
    \/ OpenEdit
    \/ ToggleApproved
    \/ TypePo
    \/ SaveChanges
    \/ CancelEdit
    \/ ClickDelete
    \/ ConfirmYes
    \/ ConfirmNo
    \/ BackToMonitor
    \/ GoHome
    \/ OpenAdd
    \/ AddStage
    \/ AddCancel

SpecSession == InitForms /\ [][NextSession]_vars

StoredPo(table, c) ==
    LET rows == {p \in table : p.ref_amc_contract = Num(c.id) /\ p.year = c.year}
    IN  IF rows = {} THEN <<"", 0>>
        ELSE LET p == CHOOSE p \in rows : \A q \in rows : q.id <= p.id
             IN  <<WidgetText(str(p.po_number)), WidgetNumber(p.po_amount)>>

====
